---- MODULE Spec2Model ----
(***************************************************************************)
(* Model of the network-commissioning cluster server                       *)
(* (src/app/clusters/network-commissioning/network-commissioning.cpp) and  *)
(* of the timed-request client (src/app/TimedRequest.cpp).                 *)
(*                                                                         *)
(* Byte buffers are tuples of integers in 0..255; a C array of size n is a *)
(* tuple of length n whose C index k is the tuple index k + 1.             *)
(***************************************************************************)
EXTENDS Integers, Sequences, FiniteSets, TLC

VARIABLES
    build,          \* preprocessor configuration of the build
    sNetworks,      \* the global table NetworkInfo sNetworks[kMaxNetworks]
    cmd,            \* the command handled by the last step, with its inputs
    responses,      \* statuses given to AddResponseData by the last command
    platformCalls,  \* platform capability calls made by the last command
    notified,       \* ids given to ConnectNetworkForOperational by the last command
    doConnectErr,   \* value returned by DoConnectNetwork in the last command
    nCmds,          \* number of commands handled so far
    now,            \* clock of the timed-interaction guard
    window,         \* the timed-interaction window of the exchange
    tr,             \* outcome of the last TimedRequest / guard operation
    stackLock,      \* thread holding the host's stack lock, 0 when it is free
    threads,        \* position of each host thread inside a command handler
    gCallbacks,     \* the client's correlation table: registered (peer, sequence) pairs
    cb              \* outcome of the last client response callback or filter

ncVars == <<build, sNetworks, cmd, responses, platformCalls, notified, doConnectErr,
            nCmds, stackLock, threads, gCallbacks, cb>>
trVars == <<now, window, tr>>
vars == <<build, sNetworks, cmd, responses, platformCalls, notified, doConnectErr,
          nCmds, now, window, tr, stackLock, threads,
          gCallbacks, cb>>

---------------------------------------------------------------------------
(* Bounds of the model *)

\* number of commands in one behaviour of the commissioning model
MaxCmds == 3

\* number of add commands in one behaviour of the timed-add model
MaxTimedAdds == 2

\* number of commands in one behaviour of the table-filling model
MaxAdds == 5

---------------------------------------------------------------------------
(* Program constants *)

kMaxNetworkIDLen == 32
kMaxThreadDatasetLen == 254
kMaxWiFiSSIDLen == 32
kMaxWiFiCredentialsLen == 64
kMaxNetworks == 4
kSizeExtendedPanId == 8

\* sizeof of the arrays the handlers test against
SizeofSSID == kMaxWiFiSSIDLen + 1
SizeofCredentials == kMaxWiFiCredentialsLen
SizeofNetworkID == kMaxNetworkIDLen

\* layout of WiFiNetworkInfo inside the union NetworkData (C offsets)
OffSSID == 0
OffSSIDLen == OffSSID + SizeofSSID
OffCredentials == OffSSIDLen + 1
OffCredentialsLen == OffCredentials + SizeofCredentials
\* layout of the Thread member of the union: dataset bytes, then its length
OffDataset == 0
OffDatasetLen == OffDataset + kMaxThreadDatasetLen
SizeofNetworkData == OffDatasetLen + 1

NetworkTypes == {"kUndefined", "kWiFi", "kThread", "kEthernet"}
Statuses == {"kSuccess", "kOutOfRange", "kBoundsExceeded", "kNetworkIDNotFound", "kUnknownError"}

---------------------------------------------------------------------------
(* Helpers for fixed-width integers and byte buffers *)

\* static_cast<uint8_t>(n)
CastU8(n) == n % 256

\* CanCastTo<uint8_t>(n) for a size_t n
CanCastToU8(n) == n <= 255

Fill(n, b) == [i \in 1..n |-> b]

\* memcpy(buf + off, src, n): the first n bytes of src over buf at C offset off
Memcpy(buf, off, src, n) ==
    SubSeq(buf, 1, off) \o SubSeq(src, 1, n) \o SubSeq(buf, off + n + 1, Len(buf))

\* the n bytes of buf starting at C offset off
Bytes(buf, off, n) == SubSeq(buf, off + 1, off + n)

\* memcmp(a, b, n) == 0
MemEq(a, b, n) == \A i \in 1..n : a[i] = b[i]

---------------------------------------------------------------------------
(* Thread::OperationalDataset, the Thread member of the union.  A dataset  *)
(* is a list of TLVs, each one a type byte, a length byte and the value.   *)

\* the TLV type of the extended PAN ID
kTlvExtendedPanId == 2

RECURSIVE WellFormedTLVs(_, _)
\* the bytes of d from index pos on are a list of complete TLVs
WellFormedTLVs(d, pos) ==
    IF pos > Len(d) THEN TRUE
    ELSE IF pos + 1 > Len(d) THEN FALSE
    ELSE IF pos + 1 + d[pos + 1] > Len(d) THEN FALSE
    ELSE WellFormedTLVs(d, pos + 2 + d[pos + 1])

RECURSIVE LocateTLV(_, _, _)
\* index of the first TLV of the given type from pos on, 0 when there is none
LocateTLV(d, pos, type) ==
    IF pos + 1 > Len(d) THEN 0
    ELSE IF d[pos] = type THEN pos
    ELSE LocateTLV(d, pos + 2 + d[pos + 1], type)

\* OperationalDataset::AsByteSpan on the union storage
AsByteSpan(mData) == Bytes(mData, OffDataset, mData[OffDatasetLen + 1])

\* OperationalDataset::Init(span) on the union storage: a dataset that does
\* not parse is refused and nothing is stored
DatasetInit(mData, span) ==
    IF Len(span) > kMaxThreadDatasetLen \/ ~WellFormedTLVs(span, 1)
    THEN [mData |-> mData, error |-> "CHIP_ERROR_INVALID_ARGUMENT"]
    ELSE [mData |-> [Memcpy(mData, OffDataset, span, Len(span))
                        EXCEPT ![OffDatasetLen + 1] = CastU8(Len(span))],
          error |-> "CHIP_NO_ERROR"]

\* OperationalDataset::GetExtendedPanId on the union storage
GetExtendedPanId(mData) ==
    LET d == AsByteSpan(mData)
        at == LocateTLV(d, 1, kTlvExtendedPanId)
    IN IF at # 0 /\ d[at + 1] = kSizeExtendedPanId
       THEN [error |-> "CHIP_NO_ERROR", xpan |-> Bytes(d, at + 1, kSizeExtendedPanId)]
       ELSE [error |-> "CHIP_ERROR_TLV_TAG_NOT_FOUND", xpan |-> <<>>]

---------------------------------------------------------------------------
(* The table *)

Slots == 0..(kMaxNetworks - 1)

\* a zero-initialised NetworkInfo (static storage)
ZeroNetworkInfo ==
    [mNetworkID |-> Fill(SizeofNetworkID, 0),
     mNetworkIDLen |-> 0,
     mEnabled |-> FALSE,
     mNetworkType |-> "kUndefined",
     mData |-> Fill(SizeofNetworkData, 0)]

\* accessors of the WiFi member of the union
mSSID(n) == Bytes(n.mData, OffSSID, SizeofSSID)
mSSIDLen(n) == n.mData[OffSSIDLen + 1]
mCredentials(n) == Bytes(n.mData, OffCredentials, SizeofCredentials)
mCredentialsLen(n) == n.mData[OffCredentialsLen + 1]

---------------------------------------------------------------------------
(* AddOrUpdateThreadNetwork *)

\* AddThreadBody that goes on to the extended PAN ID after a failed Init
AddThreadBody_IgnoreInitError(n, operationalDataset) ==
    LET init == DatasetInit(n.mData, operationalDataset)
        n1 == [n EXCEPT !.mData = init.mData]
        xp == GetExtendedPanId(n1.mData)
    IN IF xp.error # "CHIP_NO_ERROR"
       THEN [net |-> n1, err |-> "kBoundsExceeded"]
       ELSE [net |-> [n1 EXCEPT
                        !.mNetworkID = Memcpy(@, 0, xp.xpan, kSizeExtendedPanId),
                        !.mNetworkIDLen = kSizeExtendedPanId,
                        !.mNetworkType = "kThread",
                        !.mEnabled = FALSE],
             err |-> "kSuccess"]

\* AddThreadBody that stores the profile as enabled
AddThreadBody_Enabled(n, operationalDataset) ==
    LET init == DatasetInit(n.mData, operationalDataset)
        n1 == [n EXCEPT !.mData = init.mData]
        xp == GetExtendedPanId(n1.mData)
    IN IF init.error # "CHIP_NO_ERROR"
       THEN [net |-> n1, err |-> "kUnknownError"]
       ELSE IF xp.error # "CHIP_NO_ERROR"
       THEN [net |-> n1, err |-> "kBoundsExceeded"]
       ELSE [net |-> [n1 EXCEPT
                        !.mNetworkID = Memcpy(@, 0, xp.xpan, kSizeExtendedPanId),
                        !.mNetworkIDLen = kSizeExtendedPanId,
                        !.mNetworkType = "kThread",
                        !.mEnabled = TRUE],
             err |-> "kSuccess"]

\* body of the loop for the Undefined slot n (lines 121-143)
AddThreadBody(n, operationalDataset) ==
    LET init == DatasetInit(n.mData, operationalDataset)
        n1 == [n EXCEPT !.mData = init.mData]
        xp == GetExtendedPanId(n1.mData)
    IN IF init.error # "CHIP_NO_ERROR"
       THEN [net |-> n1, err |-> "kUnknownError"]
       ELSE IF xp.error # "CHIP_NO_ERROR"
       THEN [net |-> n1, err |-> "kBoundsExceeded"]
       ELSE [net |-> [n1 EXCEPT
                        !.mNetworkID = Memcpy(@, 0, xp.xpan, kSizeExtendedPanId),
                        !.mNetworkIDLen = kSizeExtendedPanId,
                        !.mNetworkType = "kThread",
                        !.mEnabled = FALSE],
             err |-> "kSuccess"]

\* the loop starting its scan at slot 1
AddThreadLoop_SkipFirst(nets, i, operationalDataset) ==
    LET free == {j \in DOMAIN nets : j >= 1 /\ nets[j].mNetworkType = "kUndefined"}
        first == CHOOSE j \in free : \A k \in free : j <= k
    IN IF free = {} THEN [nets |-> nets, err |-> "kBoundsExceeded"]
       ELSE LET r == AddThreadBody(nets[first], operationalDataset)
            IN [nets |-> [nets EXCEPT ![first] = r.net], err |-> r.err]

\* the loop writing slot 0 whatever it holds
AddThreadLoop_AnySlot(nets, i, operationalDataset) ==
    LET r == AddThreadBody(nets[0], operationalDataset)
    IN [nets |-> [nets EXCEPT ![0] = r.net], err |-> r.err]

RECURSIVE AddThreadLoop(_, _, _)
\* for (i = 0; i < kMaxNetworks; i++) from index i on
AddThreadLoop(nets, i, operationalDataset) ==
    IF i >= kMaxNetworks THEN [nets |-> nets, err |-> "kBoundsExceeded"]
    ELSE IF nets[i].mNetworkType = "kUndefined"
    THEN LET r == AddThreadBody(nets[i], operationalDataset)
         IN [nets |-> [nets EXCEPT ![i] = r.net], err |-> r.err]
    ELSE AddThreadLoop(nets, i + 1, operationalDataset)

\* the handler: new table and the statuses given to AddResponseData
OnAddOrUpdateThreadNetworkCommandCallbackInternal(b, nets, operationalDataset) ==
    IF b.thread
    THEN LET r == AddThreadLoop(nets, 0, operationalDataset)
         IN [nets |-> r.nets, responses |-> <<r.err>>]
    ELSE [nets |-> nets, responses |-> <<"kUnknownError">>]

---------------------------------------------------------------------------
(* AddOrUpdateWiFiNetwork *)

\* AddWiFiBody that takes the credentials length from the ssid
AddWiFiBody_CredLenFromSsid(n, ssid, credentials) ==
    LET n1 == [n EXCEPT !.mData = Memcpy(@, OffSSID, ssid, Len(ssid))]
        n2 == [n1 EXCEPT !.mData[OffSSIDLen + 1] = CastU8(Len(ssid))]
        n3 == [n2 EXCEPT !.mData = Memcpy(@, OffCredentials, credentials, Len(credentials))]
        n4 == [n3 EXCEPT !.mData[OffCredentialsLen + 1] = CastU8(Len(ssid))]
        n5 == [n4 EXCEPT !.mNetworkID = Memcpy(@, 0, mSSID(n4), Len(ssid))]
        n6 == [n5 EXCEPT !.mNetworkIDLen = CastU8(Len(ssid)),
                         !.mNetworkType = "kWiFi",
                         !.mEnabled = FALSE]
    IN IF ~(Len(ssid) <= SizeofSSID) THEN [net |-> n, err |-> "kOutOfRange"]
       ELSE IF ~(Len(credentials) <= SizeofCredentials) THEN [net |-> n2, err |-> "kOutOfRange"]
       ELSE IF ~(Len(ssid) <= SizeofNetworkID) THEN [net |-> n4, err |-> "kOutOfRange"]
       ELSE [net |-> n6, err |-> "kSuccess"]

\* AddWiFiBody that tests the network id against the size of mSSID
AddWiFiBody_IdSizeOfSsid(n, ssid, credentials) ==
    LET n1 == [n EXCEPT !.mData = Memcpy(@, OffSSID, ssid, Len(ssid))]
        n2 == [n1 EXCEPT !.mData[OffSSIDLen + 1] = CastU8(Len(ssid))]
        n3 == [n2 EXCEPT !.mData = Memcpy(@, OffCredentials, credentials, Len(credentials))]
        n4 == [n3 EXCEPT !.mData[OffCredentialsLen + 1] = CastU8(Len(credentials))]
        n5 == [n4 EXCEPT !.mNetworkID =
                            SubSeq(Memcpy(@, 0, mSSID(n4), Len(ssid)), 1, SizeofNetworkID)]
        n6 == [n5 EXCEPT !.mNetworkIDLen = CastU8(Len(ssid)),
                         !.mNetworkType = "kWiFi",
                         !.mEnabled = FALSE]
    IN IF ~(Len(ssid) <= SizeofSSID) THEN [net |-> n, err |-> "kOutOfRange"]
       ELSE IF ~(Len(credentials) <= SizeofCredentials) THEN [net |-> n2, err |-> "kOutOfRange"]
       ELSE IF ~(Len(ssid) <= SizeofSSID) THEN [net |-> n4, err |-> "kOutOfRange"]
       ELSE [net |-> n6, err |-> "kSuccess"]

\* body of the loop for the Undefined slot n (lines 172-198); every
\* VerifyOrExit leaves with what was written before it
AddWiFiBody(n, ssid, credentials) ==
    LET n1 == [n EXCEPT !.mData = Memcpy(@, OffSSID, ssid, Len(ssid))]
        n2 == [n1 EXCEPT !.mData[OffSSIDLen + 1] = CastU8(Len(ssid))]
        n3 == [n2 EXCEPT !.mData = Memcpy(@, OffCredentials, credentials, Len(credentials))]
        n4 == [n3 EXCEPT !.mData[OffCredentialsLen + 1] = CastU8(Len(credentials))]
        n5 == [n4 EXCEPT !.mNetworkID = Memcpy(@, 0, mSSID(n4), Len(ssid))]
        n6 == [n5 EXCEPT !.mNetworkIDLen = CastU8(Len(ssid)),
                         !.mNetworkType = "kWiFi",
                         !.mEnabled = FALSE]
    IN IF ~(Len(ssid) <= SizeofSSID) THEN [net |-> n, err |-> "kOutOfRange"]
       ELSE IF ~CanCastToU8(Len(ssid)) THEN [net |-> n1, err |-> "kOutOfRange"]
       ELSE IF ~(Len(credentials) <= SizeofCredentials) THEN [net |-> n2, err |-> "kOutOfRange"]
       ELSE IF ~CanCastToU8(Len(ssid)) THEN [net |-> n3, err |-> "kOutOfRange"]
       ELSE IF ~(Len(ssid) <= SizeofNetworkID) THEN [net |-> n4, err |-> "kOutOfRange"]
       ELSE IF ~CanCastToU8(Len(ssid)) THEN [net |-> n5, err |-> "kOutOfRange"]
       ELSE [net |-> n6, err |-> "kSuccess"]

RECURSIVE AddWiFiLoop_NoBreak(_, _, _, _)
\* AddWiFiLoop without the break after a successful write
AddWiFiLoop_NoBreak(nets, i, ssid, credentials) ==
    IF i >= kMaxNetworks THEN [nets |-> nets, err |-> "kBoundsExceeded"]
    ELSE IF nets[i].mNetworkType = "kUndefined"
    THEN LET r == AddWiFiBody(nets[i], ssid, credentials)
             rest == AddWiFiLoop_NoBreak([nets EXCEPT ![i] = r.net], i + 1, ssid, credentials)
         IN IF r.err = "kSuccess" THEN [nets |-> rest.nets, err |-> r.err]
            ELSE [nets |-> [nets EXCEPT ![i] = r.net], err |-> r.err]
    ELSE AddWiFiLoop_NoBreak(nets, i + 1, ssid, credentials)

\* the loop writing the highest-index Undefined slot
AddWiFiLoop_LastFree(nets, i, ssid, credentials) ==
    LET free == {j \in DOMAIN nets : nets[j].mNetworkType = "kUndefined"}
        last == CHOOSE j \in free : \A k \in free : j >= k
    IN IF free = {} THEN [nets |-> nets, err |-> "kBoundsExceeded"]
       ELSE LET r == AddWiFiBody(nets[last], ssid, credentials)
            IN [nets |-> [nets EXCEPT ![last] = r.net], err |-> r.err]

\* the loop updating in place a profile whose network id is the ssid
AddWiFiLoop_UpdateById(nets, i, ssid, credentials) ==
    LET same == {j \in DOMAIN nets :
                    /\ nets[j].mNetworkType # "kUndefined"
                    /\ nets[j].mNetworkIDLen = Len(ssid)
                    /\ MemEq(nets[j].mNetworkID, ssid, Len(ssid))}
        free == {j \in DOMAIN nets : nets[j].mNetworkType = "kUndefined"}
        pick(S) == CHOOSE j \in S : \A k \in S : j <= k
    IN IF same # {}
       THEN LET r == AddWiFiBody(nets[pick(same)], ssid, credentials)
            IN [nets |-> [nets EXCEPT ![pick(same)] = r.net], err |-> r.err]
       ELSE IF free # {}
       THEN LET r == AddWiFiBody(nets[pick(free)], ssid, credentials)
            IN [nets |-> [nets EXCEPT ![pick(free)] = r.net], err |-> r.err]
       ELSE [nets |-> nets, err |-> "kBoundsExceeded"]

RECURSIVE AddWiFiLoop(_, _, _, _)
\* for (i = 0; i < kMaxNetworks; i++) from index i on
AddWiFiLoop(nets, i, ssid, credentials) ==
    IF i >= kMaxNetworks THEN [nets |-> nets, err |-> "kBoundsExceeded"]
    ELSE IF nets[i].mNetworkType = "kUndefined"
    THEN LET r == AddWiFiBody(nets[i], ssid, credentials)
         IN [nets |-> [nets EXCEPT ![i] = r.net], err |-> r.err]
    ELSE AddWiFiLoop(nets, i + 1, ssid, credentials)

\* the handler returning early, without a response, on a build without Wi-Fi
OnAddOrUpdateWiFiNetwork_NoResponse(b, nets, ssid, credentials) ==
    IF b.wifi
    THEN LET r == AddWiFiLoop(nets, 0, ssid, credentials)
         IN [nets |-> r.nets, responses |-> <<r.err>>]
    ELSE [nets |-> nets, responses |-> <<>>]

\* the handler: new table and the statuses given to AddResponseData
OnAddOrUpdateWiFiNetworkCommandCallbackInternal(b, nets, ssid, credentials) ==
    IF b.wifi
    THEN LET r == AddWiFiLoop(nets, 0, ssid, credentials)
         IN [nets |-> r.nets, responses |-> <<r.err>>]
    ELSE [nets |-> nets, responses |-> <<"kUnknownError">>]

---------------------------------------------------------------------------
(* ConnectNetwork *)

\* number of bytes before the first NUL of mem from C offset off on (strlen);
\* the scan runs on through the union storage and stops at its end
StrLen(mem, off) ==
    LET nul == {i \in (off + 1)..Len(mem) : mem[i] = 0}
    IN IF nul = {} THEN Len(mem) - off
       ELSE (CHOOSE i \in nul : \A j \in nul : i <= j) - 1 - off

\* the NUL-terminated string the platform reads from the array of the given
\* size at C offset off; overrun: the array holds no NUL
CString(mem, off, size) ==
    LET n == StrLen(mem, off)
    IN [str |-> Bytes(mem, off, n), overrun |-> n >= size]

\* outcome of the k-th platform call of a command, given the one that fails
PlatformCall(k, failAt) == IF k = failAt THEN "CHIP_ERROR_INTERNAL" ELSE "CHIP_NO_ERROR"

\* ConnectThread that goes on to enable the radio when the provision failed
ConnectThread_EnableAnyway(b, network, failAt) ==
    LET disable == [fn |-> "SetThreadEnabled", arg |-> FALSE]
        provision == [fn |-> "SetThreadProvision", arg |-> AsByteSpan(network.mData)]
        enable == [fn |-> "SetThreadEnabled", arg |-> TRUE]
        first == IF b.linux THEN <<>> ELSE <<disable>>
        k == Len(first)
    IN IF ~b.thread THEN [error |-> "CHIP_ERROR_UNSUPPORTED_CHIP_FEATURE", calls |-> <<>>]
       ELSE IF k = 1 /\ PlatformCall(1, failAt) # "CHIP_NO_ERROR"
       THEN [error |-> PlatformCall(1, failAt), calls |-> first]
       ELSE IF PlatformCall(k + 1, failAt) # "CHIP_NO_ERROR"
       THEN [error |-> PlatformCall(k + 1, failAt), calls |-> first \o <<provision, enable>>]
       ELSE IF PlatformCall(k + 2, failAt) # "CHIP_NO_ERROR"
       THEN [error |-> PlatformCall(k + 2, failAt), calls |-> first \o <<provision, enable>>]
       ELSE [error |-> "CHIP_NO_ERROR", calls |-> first \o <<provision, enable>>]

\* the Thread branch of DoConnectNetwork (lines 223-235): error and calls made
ConnectThread(b, network, failAt) ==
    LET disable == [fn |-> "SetThreadEnabled", arg |-> FALSE]
        provision == [fn |-> "SetThreadProvision", arg |-> AsByteSpan(network.mData)]
        enable == [fn |-> "SetThreadEnabled", arg |-> TRUE]
        first == IF b.linux THEN <<>> ELSE <<disable>>
        k == Len(first)
    IN IF ~b.thread THEN [error |-> "CHIP_ERROR_UNSUPPORTED_CHIP_FEATURE", calls |-> <<>>]
       ELSE IF k = 1 /\ PlatformCall(1, failAt) # "CHIP_NO_ERROR"
       THEN [error |-> PlatformCall(1, failAt), calls |-> first]
       ELSE IF PlatformCall(k + 1, failAt) # "CHIP_NO_ERROR"
       THEN [error |-> PlatformCall(k + 1, failAt), calls |-> first \o <<provision>>]
       ELSE IF PlatformCall(k + 2, failAt) # "CHIP_NO_ERROR"
       THEN [error |-> PlatformCall(k + 2, failAt), calls |-> first \o <<provision, enable>>]
       ELSE [error |-> "CHIP_NO_ERROR", calls |-> first \o <<provision, enable>>]

\* the WiFi branch of DoConnectNetwork (lines 236-249): error and calls made
ConnectWiFi(b, network, failAt) ==
    LET call == [fn |-> "ProvisionWiFi",
                 arg |-> <<CString(network.mData, OffSSID, SizeofSSID),
                           CString(network.mData, OffCredentials, SizeofCredentials)>>]
    IN IF ~b.wifi THEN [error |-> "CHIP_ERROR_UNSUPPORTED_CHIP_FEATURE", calls |-> <<>>]
       ELSE [error |-> PlatformCall(1, failAt), calls |-> <<call>>]

\* DoConnectNetwork whose default case falls through to the end of the switch
DoConnectNetwork_DefaultFallsThrough(b, network, failAt) ==
    LET r == CASE network.mNetworkType = "kThread" -> ConnectThread(b, network, failAt)
               [] network.mNetworkType = "kWiFi" -> ConnectWiFi(b, network, failAt)
               [] OTHER -> [error |-> "CHIP_NO_ERROR", calls |-> <<>>]
    IN IF r.error # "CHIP_NO_ERROR"
       THEN [error |-> r.error, net |-> network, calls |-> r.calls]
       ELSE [error |-> "CHIP_NO_ERROR", net |-> [network EXCEPT !.mEnabled = TRUE],
             calls |-> r.calls]

\* DoConnectNetwork that clears mEnabled when the workflow fails
DoConnectNetwork_ClearOnFailure(b, network, failAt) ==
    LET r == CASE network.mNetworkType = "kThread" -> ConnectThread(b, network, failAt)
               [] network.mNetworkType = "kWiFi" -> ConnectWiFi(b, network, failAt)
               [] OTHER -> [error |-> "CHIP_ERROR_NOT_IMPLEMENTED", calls |-> <<>>]
    IN IF r.error # "CHIP_NO_ERROR"
       THEN [error |-> r.error, net |-> [network EXCEPT !.mEnabled = FALSE], calls |-> r.calls]
       ELSE [error |-> "CHIP_NO_ERROR", net |-> [network EXCEPT !.mEnabled = TRUE],
             calls |-> r.calls]

\* DoConnectNetwork that returns without setting mEnabled
DoConnectNetwork_NoEnable(b, network, failAt) ==
    LET r == CASE network.mNetworkType = "kThread" -> ConnectThread(b, network, failAt)
               [] network.mNetworkType = "kWiFi" -> ConnectWiFi(b, network, failAt)
               [] OTHER -> [error |-> "CHIP_ERROR_NOT_IMPLEMENTED", calls |-> <<>>]
    IN [error |-> r.error, net |-> network, calls |-> r.calls]

\* DoConnectNetwork(network): the error, the network after it, the calls made
DoConnectNetwork(b, network, failAt) ==
    LET r == CASE network.mNetworkType = "kThread" -> ConnectThread(b, network, failAt)
               [] network.mNetworkType = "kWiFi" -> ConnectWiFi(b, network, failAt)
               [] OTHER -> [error |-> "CHIP_ERROR_NOT_IMPLEMENTED", calls |-> <<>>]
    IN IF r.error # "CHIP_NO_ERROR"
       THEN [error |-> r.error, net |-> network, calls |-> r.calls]
       ELSE [error |-> "CHIP_NO_ERROR", net |-> [network EXCEPT !.mEnabled = TRUE],
             calls |-> r.calls]

\* the comparison without the test of the network type
IdMatches_NoTypeCheck(n, networkID) ==
    /\ n.mNetworkIDLen = Len(networkID)
    /\ MemEq(n.mNetworkID, networkID, Len(networkID))

\* the test of line 269-271 on one slot
IdMatches(n, networkID) ==
    /\ n.mNetworkIDLen = Len(networkID)
    /\ n.mNetworkType # "kUndefined"
    /\ MemEq(n.mNetworkID, networkID, Len(networkID))

RECURSIVE ConnectLoop_TryNext(_, _, _, _, _)
\* the loop going on to the next matching slot after a failed attempt
ConnectLoop_TryNext(b, nets, networkSeq, networkID, failAt) ==
    IF networkSeq >= kMaxNetworks
    THEN [nets |-> nets, err |-> "kNetworkIDNotFound", calls |-> <<>>, doErr |-> "none"]
    ELSE IF IdMatches(nets[networkSeq], networkID)
    THEN LET r == DoConnectNetwork(b, nets[networkSeq], failAt)
             next == ConnectLoop_TryNext(b, nets, networkSeq + 1, networkID, 0)
         IN IF r.error # "CHIP_NO_ERROR" /\ next.err # "kNetworkIDNotFound"
            THEN [next EXCEPT !.calls = r.calls \o @]
            ELSE [nets |-> [nets EXCEPT ![networkSeq] = r.net],
                  err |-> IF r.error = "CHIP_NO_ERROR" THEN "kSuccess" ELSE "kUnknownError",
                  calls |-> r.calls, doErr |-> r.error]
    ELSE ConnectLoop_TryNext(b, nets, networkSeq + 1, networkID, failAt)

RECURSIVE ConnectLoop(_, _, _, _, _)
\* for (networkSeq = 0; networkSeq < kMaxNetworks; networkSeq++) from networkSeq on
ConnectLoop(b, nets, networkSeq, networkID, failAt) ==
    IF networkSeq >= kMaxNetworks
    THEN [nets |-> nets, err |-> "kNetworkIDNotFound", calls |-> <<>>, doErr |-> "none"]
    ELSE IF IdMatches(nets[networkSeq], networkID)
    THEN LET r == DoConnectNetwork(b, nets[networkSeq], failAt)
         IN [nets |-> [nets EXCEPT ![networkSeq] = r.net],
             err |-> IF r.error = "CHIP_NO_ERROR" THEN "kSuccess" ELSE "kUnknownError",
             calls |-> r.calls, doErr |-> r.error]
    ELSE ConnectLoop(b, nets, networkSeq + 1, networkID, failAt)

\* the handler clearing mEnabled of every other slot when a connect succeeds
OnConnectNetwork_SingleEnabled(b, nets, networkID, failAt) ==
    LET r == ConnectLoop(b, nets, 0, networkID, failAt)
    IN [nets |-> IF r.err = "kSuccess"
                 THEN [i \in DOMAIN nets |->
                          IF IdMatches(nets[i], networkID) THEN r.nets[i]
                          ELSE [r.nets[i] EXCEPT !.mEnabled = FALSE]]
                 ELSE r.nets,
        calls |-> r.calls, doErr |-> r.doErr,
        notified |-> IF r.err = "kSuccess" THEN <<networkID>> ELSE <<>>,
        responses |-> <<r.err>>]

\* the handler notifying whenever a profile matched
OnConnectNetwork_NotifyOnMatch(b, nets, networkID, failAt) ==
    LET r == ConnectLoop(b, nets, 0, networkID, failAt)
    IN [nets |-> r.nets, calls |-> r.calls, doErr |-> r.doErr,
        notified |-> IF r.err # "kNetworkIDNotFound" THEN <<networkID>> ELSE <<>>,
        responses |-> <<r.err>>]

\* the handler: new table, platform calls, notifications and responses
OnConnectNetworkCommandCallbackInternal(b, nets, networkID, failAt) ==
    LET r == ConnectLoop(b, nets, 0, networkID, failAt)
    IN [nets |-> r.nets, calls |-> r.calls, doErr |-> r.doErr,
        notified |-> IF r.err = "kSuccess" THEN <<networkID>> ELSE <<>>,
        responses |-> <<r.err>>]

---------------------------------------------------------------------------
(* Inputs of the commands *)

\* network ids of the two Thread datasets
XpanA == Fill(kSizeExtendedPanId, 10)
XpanB == Fill(kSizeExtendedPanId, 11)

\* a channel TLV (type 0, 3 bytes)
ChannelTLV == <<0, 3, 0, 0, 15>>

SSIDs == {<<1>>, Fill(kMaxWiFiSSIDLen, 3), Fill(kMaxWiFiSSIDLen + 1, 4),
          Fill(kMaxWiFiSSIDLen + 2, 5)}

CredentialsSet == {<<7>>, Fill(kMaxWiFiCredentialsLen, 8), Fill(kMaxWiFiCredentialsLen + 1, 9)}

Datasets == {ChannelTLV \o <<kTlvExtendedPanId, kSizeExtendedPanId>> \o XpanA,
             <<kTlvExtendedPanId, kSizeExtendedPanId>> \o XpanB,
             ChannelTLV,
             <<kTlvExtendedPanId, kSizeExtendedPanId, 10>>}

NetworkIDs == {<<>>, <<1>>, <<1, 2>>, Fill(kMaxWiFiSSIDLen, 3), XpanA}

\* the platform call of a command that fails (0: none)
FailAts == 0..3

\* builds: CHIP_DEVICE_LAYER_TARGET, CHIP_DEVICE_CONFIG_ENABLE_THREAD and
\* CHIP_DEVICE_LAYER_TARGET_LINUX; the last one is a CHIP_DEVICE_LAYER_TARGET
\* and is read inside the Thread branch only
Builds == {b \in [wifi : BOOLEAN, thread : BOOLEAN, linux : BOOLEAN] :
              b.linux => (b.wifi /\ b.thread)}

NoCmd == [op |-> "none", ssid |-> <<>>, credentials |-> <<>>, dataset |-> <<>>,
          networkID |-> <<>>, failAt |-> 0, windowExpired |-> FALSE]

\* the inputs AddOrUpdateWiFiNetwork is specified to accept
ValidWiFiAdd(ssid, credentials) ==
    Len(ssid) <= kMaxWiFiSSIDLen /\ Len(credentials) <= kMaxWiFiCredentialsLen

---------------------------------------------------------------------------
(* The commissioning state machine *)

\* no timed-interaction window is open
NoWindow == [open |-> FALSE, deadline |-> 0]

NoTimed == [op |-> "none", timeout |-> 0, failStep |-> "none", msgType |-> "none",
            payload |-> <<>>, statusIn |-> 0, statusOut |-> 0,
            result |-> "none", sent |-> <<>>, at |-> 0, deadline |-> 0, open |-> FALSE]

\* identifiers of the host threads that may enter the command handlers
NumThreads == 2
Threads == 1..NumThreads

\* a thread outside every handler
IdleThread == [pc |-> "idle", op |-> "none", i |-> 0]
NoThreads == [t \in Threads |-> IdleThread]

\* no client callback has run
NoCallback == [fn |-> "none", commandObj |-> 0, fields |-> <<>>, tlvData |-> <<>>,
               failureIsNull |-> FALSE, successCalls |-> <<>>, failureCalls |-> <<>>,
               returned |-> "none"]

NCInit ==
    /\ build \in Builds
    /\ sNetworks = [i \in Slots |-> ZeroNetworkInfo]
    /\ cmd = NoCmd
    /\ responses = <<>>
    /\ platformCalls = <<>>
    /\ notified = <<>>
    /\ doConnectErr = "none"
    /\ nCmds = 0
    /\ now = 0
    /\ window = NoWindow
    /\ tr = NoTimed
    /\ stackLock = 0
    /\ threads = NoThreads
    /\ gCallbacks = {}
    /\ cb = NoCallback

\* one AddOrUpdateWiFiNetwork command; expired: the timed window of its
\* exchange has elapsed when it arrives
AddOrUpdateWiFiNetwork(ssid, credentials, expired) ==
    LET r == OnAddOrUpdateWiFiNetworkCommandCallbackInternal(build, sNetworks, ssid, credentials)
    IN /\ sNetworks' = r.nets
       /\ responses' = r.responses
       /\ platformCalls' = <<>>
       /\ notified' = <<>>
       /\ doConnectErr' = "none"
       /\ cmd' = [NoCmd EXCEPT !.op = "AddOrUpdateWiFiNetwork", !.ssid = ssid,
                               !.credentials = credentials, !.windowExpired = expired]
       /\ nCmds' = nCmds + 1
       /\ UNCHANGED <<build, now, window, tr, stackLock, threads, gCallbacks, cb>>

\* one AddOrUpdateThreadNetwork command
AddOrUpdateThreadNetwork(operationalDataset, expired) ==
    LET r == OnAddOrUpdateThreadNetworkCommandCallbackInternal(build, sNetworks, operationalDataset)
    IN /\ sNetworks' = r.nets
       /\ responses' = r.responses
       /\ platformCalls' = <<>>
       /\ notified' = <<>>
       /\ doConnectErr' = "none"
       /\ cmd' = [NoCmd EXCEPT !.op = "AddOrUpdateThreadNetwork", !.dataset = operationalDataset,
                               !.windowExpired = expired]
       /\ nCmds' = nCmds + 1
       /\ UNCHANGED <<build, now, window, tr, stackLock, threads, gCallbacks, cb>>

\* number of platform calls ConnectNetwork(networkID) makes when none fails
NumPlatformCalls(networkID) ==
    Len(OnConnectNetworkCommandCallbackInternal(build, sNetworks, networkID, 0).calls)

\* one ConnectNetwork command; failAt: the platform call that fails (0: none)
ConnectNetwork(networkID, failAt) ==
    LET r == OnConnectNetworkCommandCallbackInternal(build, sNetworks, networkID, failAt)
    IN /\ sNetworks' = r.nets
       /\ responses' = r.responses
       /\ platformCalls' = r.calls
       /\ notified' = r.notified
       /\ doConnectErr' = r.doErr
       /\ cmd' = [NoCmd EXCEPT !.op = "ConnectNetwork", !.networkID = networkID,
                               !.failAt = failAt]
       /\ nCmds' = nCmds + 1
       /\ UNCHANGED <<build, now, window, tr, stackLock, threads, gCallbacks, cb>>

NCNext ==
    \/ /\ nCmds < MaxCmds
       /\ \E ssid \in SSIDs, credentials \in CredentialsSet :
             AddOrUpdateWiFiNetwork(ssid, credentials, FALSE)
    \/ /\ nCmds < MaxCmds
       /\ \E d \in Datasets : AddOrUpdateThreadNetwork(d, FALSE)
    \/ /\ nCmds < MaxCmds
       /\ \E id \in NetworkIDs : \E failAt \in 0..NumPlatformCalls(id) :
             ConnectNetwork(id, failAt)

\* any sequence of the three commands from the empty table, each arriving
\* within the timed window of its exchange
Spec == NCInit /\ [][NCNext]_vars

\* add commands that arrive within or after the timed window of their exchange
TimedAddNext ==
    \/ /\ nCmds < MaxTimedAdds
       /\ \E ssid \in SSIDs, credentials \in CredentialsSet, expired \in BOOLEAN :
             AddOrUpdateWiFiNetwork(ssid, credentials, expired)
    \/ /\ nCmds < MaxTimedAdds
       /\ \E d \in Datasets, expired \in BOOLEAN : AddOrUpdateThreadNetwork(d, expired)

SpecTimedAdd == NCInit /\ [][TimedAddNext]_vars

\* sequences of valid Wi-Fi adds only, long enough to overfill the table
FillNext ==
    /\ nCmds < MaxAdds
    /\ \E ssid \in SSIDs, credentials \in CredentialsSet :
          /\ ValidWiFiAdd(ssid, credentials)
          /\ AddOrUpdateWiFiNetwork(ssid, credentials, FALSE)

SpecFill == NCInit /\ [][FillNext]_vars

\* commands of the longer connect sequences
MaxConnectCmds == 5

\* the Wi-Fi profile and the Thread dataset those sequences store
ConnectSSID == <<1>>
ConnectCredentials == <<7>>
ConnectDataset == ChannelTLV \o <<kTlvExtendedPanId, kSizeExtendedPanId>> \o XpanA

\* the network ids of the two
ConnectIDs == {ConnectSSID, XpanA}

\* valid adds of the two profiles, repeated or not, and connects of their ids
ConnectNext ==
    \/ /\ nCmds < MaxConnectCmds
       /\ AddOrUpdateWiFiNetwork(ConnectSSID, ConnectCredentials, FALSE)
    \/ /\ nCmds < MaxConnectCmds
       /\ AddOrUpdateThreadNetwork(ConnectDataset, FALSE)
    \/ /\ nCmds < MaxConnectCmds
       /\ \E id \in ConnectIDs : \E failAt \in 0..NumPlatformCalls(id) :
             ConnectNetwork(id, failAt)

SpecConnect == NCInit /\ [][ConnectNext]_vars

\* calls of the connection workflow in one run
MaxWorkflowCmds == 2

\* a NetworkInfo of each network type for DoConnectNetwork: the profiles the
\* adds store, an Ethernet profile and the zero-initialised slot
WorkflowProfiles ==
    LET bare == {AddWiFiBody(ZeroNetworkInfo, ConnectSSID, ConnectCredentials).net,
                 AddThreadBody(ZeroNetworkInfo, ConnectDataset).net,
                 [ZeroNetworkInfo EXCEPT !.mNetworkType = "kEthernet",
                                         !.mNetworkID = Memcpy(@, 0, ConnectSSID, 1),
                                         !.mNetworkIDLen = 1],
                 ZeroNetworkInfo}
    IN {[n EXCEPT !.mEnabled = e] : n \in bare, e \in BOOLEAN}

\* DoConnectNetwork as a function of any NetworkInfo: the argument is slot 0
WorkflowInit ==
    /\ build \in Builds
    /\ \E n \in WorkflowProfiles :
          sNetworks = [i \in Slots |-> IF i = 0 THEN n ELSE ZeroNetworkInfo]
    /\ cmd = NoCmd
    /\ responses = <<>>
    /\ platformCalls = <<>>
    /\ notified = <<>>
    /\ doConnectErr = "none"
    /\ nCmds = 0
    /\ now = 0
    /\ window = NoWindow
    /\ tr = NoTimed
    /\ stackLock = 0
    /\ threads = NoThreads
    /\ gCallbacks = {}
    /\ cb = NoCallback

\* DoConnectNetwork(&sNetworks[0]) alone; failAt: the platform call that fails
DoConnectNetworkCall(failAt) ==
    LET r == DoConnectNetwork(build, sNetworks[0], failAt)
    IN /\ sNetworks' = [sNetworks EXCEPT ![0] = r.net]
       /\ responses' = <<>>
       /\ platformCalls' = r.calls
       /\ notified' = <<>>
       /\ doConnectErr' = r.error
       /\ cmd' = [NoCmd EXCEPT !.op = "DoConnectNetwork", !.failAt = failAt]
       /\ nCmds' = nCmds + 1
       /\ UNCHANGED <<build, now, window, tr, stackLock, threads, gCallbacks, cb>>

WorkflowNext ==
    \/ /\ nCmds < MaxWorkflowCmds
       /\ \E failAt \in 0..Len(DoConnectNetwork(build, sNetworks[0], 0).calls) :
             DoConnectNetworkCall(failAt)
    \/ /\ nCmds < MaxWorkflowCmds
       /\ \E id \in ConnectIDs : \E failAt \in 0..NumPlatformCalls(id) :
             ConnectNetwork(id, failAt)

SpecWorkflow == WorkflowInit /\ [][WorkflowNext]_vars

---------------------------------------------------------------------------
(* The handlers entered from more than one host thread.  sNetworks is a     *)
(* file-scope table and no handler takes a lock itself: a thread holds the  *)
(* host's stack lock while it is inside a handler.  The handler steps are   *)
(* the statements between which another thread could run.                   *)

\* commands in one behaviour of the threaded model
MaxThreadCmds == 3

\* the host hands the stack lock to thread t, which may then dispatch a command
LockChipStack_NoWait(t) ==
    /\ threads[t].pc = "idle"
    /\ stackLock' = t
    /\ threads' = [threads EXCEPT ![t].pc = "locked"]
    /\ UNCHANGED <<build, sNetworks, cmd, responses, platformCalls, notified, doConnectErr,
                   nCmds, now, window, tr, gCallbacks, cb>>

\* thread t takes the stack lock when it is free
LockChipStack(t) ==
    /\ threads[t].pc = "idle"
    /\ stackLock = 0
    /\ stackLock' = t
    /\ threads' = [threads EXCEPT ![t].pc = "locked"]
    /\ UNCHANGED <<build, sNetworks, cmd, responses, platformCalls, notified, doConnectErr,
                   nCmds, now, window, tr, gCallbacks, cb>>

\* thread t has left its handler and gives the lock back
UnlockChipStack(t) ==
    /\ threads[t].pc = "done"
    /\ stackLock' = 0
    /\ threads' = [threads EXCEPT ![t] = IdleThread]
    /\ UNCHANGED <<build, sNetworks, cmd, responses, platformCalls, notified, doConnectErr,
                   nCmds, now, window, tr, gCallbacks, cb>>

\* index of the first Undefined slot the scan of lines 168-170 finds, -1 if none
FirstUndefined(nets) ==
    LET free == {i \in DOMAIN nets : nets[i].mNetworkType = "kUndefined"}
    IN IF free = {} THEN -1 ELSE CHOOSE i \in free : \A k \in free : i <= k

\* thread t enters AddOrUpdateWiFiNetwork and scans for an Undefined slot
ThreadAddScan(t) ==
    LET i == FirstUndefined(sNetworks)
        c == [NoCmd EXCEPT !.op = "AddOrUpdateWiFiNetwork", !.ssid = ConnectSSID,
                           !.credentials = ConnectCredentials]
    IN /\ threads[t].pc = "locked"
       /\ cmd' = c
       /\ nCmds' = nCmds + 1
       /\ IF build.wifi /\ i # -1
          THEN /\ threads' = [threads EXCEPT ![t] = [pc |-> "write", op |-> c.op, i |-> i]]
               /\ UNCHANGED responses
          ELSE /\ responses' = <<IF build.wifi THEN "kBoundsExceeded" ELSE "kUnknownError">>
               /\ threads' = [threads EXCEPT ![t] = [pc |-> "done", op |-> c.op, i |-> 0]]
       /\ UNCHANGED <<build, sNetworks, platformCalls, notified, doConnectErr,
                      now, window, tr, stackLock, gCallbacks, cb>>

\* lines 172-192: the buffers, lengths and network id of the chosen slot
ThreadAddWrite(t) ==
    LET i == threads[t].i
        r == AddWiFiBody(sNetworks[i], ConnectSSID, ConnectCredentials)
    IN /\ threads[t].pc = "write"
       /\ sNetworks' = [sNetworks EXCEPT ![i] =
                           [r.net EXCEPT !.mNetworkType = sNetworks[i].mNetworkType,
                                         !.mEnabled = sNetworks[i].mEnabled]]
       /\ threads' = [threads EXCEPT ![t].pc = "commit"]
       /\ UNCHANGED <<build, cmd, responses, platformCalls, notified, doConnectErr,
                      nCmds, now, window, tr, stackLock, gCallbacks, cb>>

\* lines 194-208: the type, the enabled flag and the response
ThreadAddCommit(t) ==
    LET i == threads[t].i
    IN /\ threads[t].pc = "commit"
       /\ sNetworks' = [sNetworks EXCEPT ![i].mNetworkType = "kWiFi", ![i].mEnabled = FALSE]
       /\ responses' = <<"kSuccess">>
       /\ threads' = [threads EXCEPT ![t].pc = "done"]
       /\ UNCHANGED <<build, cmd, platformCalls, notified, doConnectErr,
                      nCmds, now, window, tr, stackLock, gCallbacks, cb>>

\* thread t enters ConnectNetwork (lines 260-266)
ThreadConnectEnter(t, networkID) ==
    /\ threads[t].pc = "locked"
    /\ threads' = [threads EXCEPT ![t] = [pc |-> "lookup", op |-> "ConnectNetwork", i |-> 0]]
    /\ cmd' = [NoCmd EXCEPT !.op = "ConnectNetwork", !.networkID = networkID]
    /\ nCmds' = nCmds + 1
    /\ UNCHANGED <<build, sNetworks, responses, platformCalls, notified, doConnectErr,
                   now, window, tr, stackLock, gCallbacks, cb>>

\* lines 267-287: the lookup over the table as it is now, and the connect
ThreadConnectLookup(t, networkID) ==
    LET r == OnConnectNetworkCommandCallbackInternal(build, sNetworks, networkID, 0)
    IN /\ threads[t].pc = "lookup"
       /\ sNetworks' = r.nets
       /\ responses' = r.responses
       /\ platformCalls' = r.calls
       /\ notified' = r.notified
       /\ doConnectErr' = r.doErr
       /\ threads' = [threads EXCEPT ![t].pc = "done"]
       /\ UNCHANGED <<build, cmd, nCmds, now, window, tr, stackLock, gCallbacks, cb>>

ThreadsNext ==
    \E t \in Threads :
        \/ nCmds < MaxThreadCmds /\ LockChipStack(t)
        \/ ThreadAddScan(t)
        \/ ThreadAddWrite(t)
        \/ ThreadAddCommit(t)
        \/ ThreadConnectEnter(t, ConnectSSID)
        \/ ThreadConnectLookup(t, ConnectSSID)
        \/ UnlockChipStack(t)

SpecThreads == NCInit /\ [][ThreadsNext]_vars

---------------------------------------------------------------------------
(* TimedRequest (src/app/TimedRequest.cpp) and the timed-interaction guard *)

\* last instant of the guard's clock
MaxTime == 4

\* size asked of MessagePacketBuffer::New
kTimedRequestBufferSize == 6

\* TLV element bytes: anonymous structure, end of container, and an
\* unsigned integer of 1 or 2 bytes under a context tag
kTlvStructure == 21
kTlvEndOfContainer == 24
kTlvContextUInt8 == 36
kTlvContextUInt16 == 37

\* a structure holding one unsigned integer under context tag 0
EncodeUIntStruct(v) ==
    <<kTlvStructure>>
    \o (IF v <= 255 THEN <<kTlvContextUInt8, 0, v>>
        ELSE <<kTlvContextUInt16, 0, v % 256, v \div 256>>)
    \o <<kTlvEndOfContainer>>

\* the integer of such a structure, -1 when the bytes are not one
DecodeUIntStruct(bytes) ==
    IF Len(bytes) = 5 /\ bytes[1] = kTlvStructure /\ bytes[2] = kTlvContextUInt8
       /\ bytes[3] = 0 /\ bytes[5] = kTlvEndOfContainer
    THEN bytes[4]
    ELSE IF Len(bytes) = 6 /\ bytes[1] = kTlvStructure /\ bytes[2] = kTlvContextUInt16
            /\ bytes[3] = 0 /\ bytes[6] = kTlvEndOfContainer
    THEN bytes[4] + 256 * bytes[5]
    ELSE -1

\* steps of Send that the environment can make fail, and the error of each
SendSteps == {"none", "New", "builder.Init", "builder.TimeoutMs", "writer.Finalize", "SendMessage"}

StepError(step) ==
    CASE step = "New" -> "CHIP_ERROR_NO_MEMORY"
      [] step = "builder.Init" -> "CHIP_ERROR_INCORRECT_STATE"
      [] step = "builder.TimeoutMs" -> "CHIP_ERROR_WRONG_TLV_TYPE"
      [] step = "writer.Finalize" -> "CHIP_ERROR_TLV_CONTAINER_OPEN"
      [] step = "SendMessage" -> "CHIP_ERROR_NOT_CONNECTED"
      [] OTHER -> "CHIP_NO_ERROR"

\* TimedRequestMessage::Builder::TimeoutMs into a buffer of the given size
BuilderTimeoutMs(size, aTimeoutMs, failStep) ==
    IF failStep = "builder.TimeoutMs" THEN [error |-> StepError(failStep), bytes |-> <<>>]
    ELSE IF Len(EncodeUIntStruct(aTimeoutMs)) > size
    THEN [error |-> "CHIP_ERROR_BUFFER_TOO_SMALL", bytes |-> <<>>]
    ELSE [error |-> "CHIP_NO_ERROR", bytes |-> EncodeUIntStruct(aTimeoutMs)]

\* Send that goes on to SendMessage when writer.Finalize has failed
Send_IgnoreFinalize(aTimeoutMs, failStep) ==
    LET enc == BuilderTimeoutMs(kTimedRequestBufferSize, aTimeoutMs, failStep)
        msg == [type |-> "TimedRequest", payload |-> enc.bytes, flags |-> {"kExpectResponse"}]
    IN IF failStep = "New" THEN [result |-> "CHIP_ERROR_NO_MEMORY", sent |-> <<>>]
       ELSE IF failStep = "builder.Init" THEN [result |-> StepError(failStep), sent |-> <<>>]
       ELSE IF enc.error # "CHIP_NO_ERROR" THEN [result |-> enc.error, sent |-> <<>>]
       ELSE [result |-> StepError(IF failStep = "SendMessage" THEN failStep ELSE "none"),
             sent |-> <<msg>>]

\* TimedRequest::Send: the error returned and the SendMessage calls made
Send(aTimeoutMs, failStep) ==
    LET enc == BuilderTimeoutMs(kTimedRequestBufferSize, aTimeoutMs, failStep)
        msg == [type |-> "TimedRequest", payload |-> enc.bytes, flags |-> {"kExpectResponse"}]
    IN IF failStep = "New" THEN [result |-> "CHIP_ERROR_NO_MEMORY", sent |-> <<>>]
       ELSE IF failStep = "builder.Init" THEN [result |-> StepError(failStep), sent |-> <<>>]
       ELSE IF enc.error # "CHIP_NO_ERROR" THEN [result |-> enc.error, sent |-> <<>>]
       ELSE IF failStep = "writer.Finalize" THEN [result |-> StepError(failStep), sent |-> <<>>]
       ELSE [result |-> StepError(IF failStep = "SendMessage" THEN failStep ELSE "none"),
             sent |-> <<msg>>]

\* interaction-model status codes
kStatusSuccess == 0
kStatusFailure == 1
kStatusTimeout == 148

\* StatusResponse::ProcessStatusResponse: decodes the payload into the status
ProcessStatusResponse(aPayload, aStatusIB) ==
    IF DecodeUIntStruct(aPayload) \in 0..255
    THEN [error |-> "CHIP_NO_ERROR", status |-> DecodeUIntStruct(aPayload)]
    ELSE [error |-> "CHIP_ERROR_END_OF_TLV", status |-> aStatusIB]

\* HandleResponse that decodes the payload before looking at the message type
HandleResponse_DecodeFirst(msgType, aPayload, aStatusIB) ==
    LET p == ProcessStatusResponse(aPayload, aStatusIB)
    IN IF p.error # "CHIP_NO_ERROR" THEN [result |-> p.error, status |-> p.status]
       ELSE IF msgType # "StatusResponse"
       THEN [result |-> "CHIP_ERROR_INVALID_MESSAGE_TYPE", status |-> p.status]
       ELSE IF p.status # kStatusSuccess
       THEN [result |-> "CHIP_ERROR_IM_STATUS_CODE_RECEIVED", status |-> p.status]
       ELSE [result |-> "CHIP_NO_ERROR", status |-> p.status]

\* TimedRequest::HandleResponse: the error returned and aStatusIB after it
HandleResponse(msgType, aPayload, aStatusIB) ==
    LET p == ProcessStatusResponse(aPayload, aStatusIB)
    IN IF msgType # "StatusResponse"
       THEN [result |-> "CHIP_ERROR_INVALID_MESSAGE_TYPE", status |-> aStatusIB]
       ELSE IF p.error # "CHIP_NO_ERROR" THEN [result |-> p.error, status |-> p.status]
       ELSE IF p.status # kStatusSuccess
       THEN [result |-> "CHIP_ERROR_IM_STATUS_CODE_RECEIVED", status |-> p.status]
       ELSE [result |-> "CHIP_NO_ERROR", status |-> p.status]

\* the guard's window after open_window: the deadline is fixed when the
\* announcement is sent
OpenWindow(t0, timeout) == [open |-> TRUE, deadline |-> t0 + timeout]

\* check_window that already refuses a check made at the deadline
CheckWindow_AtDeadline(w, t) ==
    IF ~w.open THEN "NoWindow"
    ELSE IF t >= w.deadline THEN "Expired"
    ELSE "Ok"

\* check_window(now) on a window
CheckWindow(w, t) ==
    IF ~w.open THEN "NoWindow"
    ELSE IF t > w.deadline THEN "Expired"
    ELSE "Ok"

Timeouts == {0, 2, 255, 256, 65535}
MsgTypes == {"StatusResponse", "InvokeCommandResponse"}
Payloads == {EncodeUIntStruct(kStatusSuccess), EncodeUIntStruct(kStatusFailure),
             EncodeUIntStruct(kStatusTimeout), <<kTlvStructure>>, <<>>}
StatusValues == {kStatusSuccess, kStatusFailure}

TRInit ==
    /\ build = [wifi |-> TRUE, thread |-> TRUE, linux |-> FALSE]
    /\ sNetworks = [i \in Slots |-> ZeroNetworkInfo]
    /\ cmd = NoCmd
    /\ responses = <<>>
    /\ platformCalls = <<>>
    /\ notified = <<>>
    /\ doConnectErr = "none"
    /\ nCmds = 0
    /\ now = 0
    /\ window = NoWindow
    /\ tr = NoTimed
    /\ stackLock = 0
    /\ threads = NoThreads
    /\ gCallbacks = {}
    /\ cb = NoCallback

\* open_window: TimedRequest::Send, and the window it opens when it succeeds
TRSend(aTimeoutMs, failStep) ==
    LET r == Send(aTimeoutMs, failStep)
    IN /\ tr' = [NoTimed EXCEPT !.op = "Send", !.timeout = aTimeoutMs, !.failStep = failStep,
                                !.result = r.result, !.sent = r.sent, !.at = now]
       /\ window' = IF r.result = "CHIP_NO_ERROR"
                    THEN OpenWindow(now, aTimeoutMs) ELSE window
       /\ UNCHANGED <<ncVars, now>>

\* await_ack: TimedRequest::HandleResponse on the reply
TRHandleResponse(msgType, aPayload, aStatusIB) ==
    LET r == HandleResponse(msgType, aPayload, aStatusIB)
    IN /\ tr' = [NoTimed EXCEPT !.op = "HandleResponse", !.msgType = msgType,
                                !.payload = aPayload, !.statusIn = aStatusIB,
                                !.statusOut = r.status, !.result = r.result, !.at = now]
       /\ UNCHANGED <<ncVars, now, window>>

\* check_window: the window is discarded whatever the outcome
TRCheckWindow ==
    /\ tr' = [NoTimed EXCEPT !.op = "CheckWindow", !.result = CheckWindow(window, now),
                             !.at = now, !.open = window.open,
                             !.deadline = window.deadline]
    /\ window' = NoWindow
    /\ UNCHANGED <<ncVars, now>>

\* time passes
TRTick ==
    /\ now < MaxTime
    /\ now' = now + 1
    /\ UNCHANGED <<ncVars, window, tr>>

TRNext ==
    \/ \E t \in Timeouts, f \in SendSteps : TRSend(t, f)
    \/ \E m \in MsgTypes, p \in Payloads, st \in StatusValues : TRHandleResponse(m, p, st)
    \/ TRCheckWindow
    \/ TRTick

SpecTimed == TRInit /\ [][TRNext]_vars

---------------------------------------------------------------------------
(* Vocabulary of the properties *)

\* the slots that hold a profile
Occupied(nets) == {i \in Slots : nets[i].mNetworkType # "kUndefined"}

\* slot i holds a profile whose network id is exactly id
HoldsId(nets, i, id) ==
    /\ nets[i].mNetworkType # "kUndefined"
    /\ nets[i].mNetworkIDLen = Len(id)
    /\ SubSeq(nets[i].mNetworkID, 1, Len(id)) = id

\* the slots an add or connect step changes
Changed(old, new) == {i \in Slots : old[i] # new[i]}

IsAdd(c) == c.op \in {"AddOrUpdateWiFiNetwork", "AddOrUpdateThreadNetwork"}

---------------------------------------------------------------------------
(* C1: from the empty table, in a sequence of valid Wi-Fi adds, each of the *)
(* first kMaxNetworks adds answers Success and turns one slot that was      *)
(* Undefined into a profile, leaving the others alone; every later add      *)
(* answers BoundsExceeded and changes no field of any slot.                 *)

C1_Step ==
    (build.wifi /\ cmd'.op = "AddOrUpdateWiFiNetwork") =>
        IF nCmds < kMaxNetworks
        THEN /\ responses' = <<"kSuccess">>
             /\ Cardinality(Occupied(sNetworks)) = nCmds
             /\ \E i \in Slots \ Occupied(sNetworks) :
                   /\ Occupied(sNetworks') = Occupied(sNetworks) \cup {i}
                   /\ Changed(sNetworks, sNetworks') = {i}
        ELSE /\ responses' = <<"kBoundsExceeded">>
             /\ sNetworks' = sNetworks

C1_Capacity == [][C1_Step]_vars

C1_Witness ==
    /\ build.wifi
    /\ nCmds = kMaxNetworks + 1
    /\ Occupied(sNetworks) = Slots
    /\ responses = <<"kBoundsExceeded">>

---------------------------------------------------------------------------
(* C2: with a free slot in the table, AddOrUpdateWiFiNetwork given an ssid  *)
(* longer than 32 bytes or credentials longer than 64 bytes answers         *)
(* OutOfRange and leaves the whole table unchanged, the scanned slot's      *)
(* stored SSID, SSID length, credentials and credentials length included.   *)

C2_Step ==
    (/\ build.wifi
     /\ cmd'.op = "AddOrUpdateWiFiNetwork"
     /\ Occupied(sNetworks) # Slots
     /\ \/ Len(cmd'.ssid) > kMaxWiFiSSIDLen
        \/ Len(cmd'.credentials) > kMaxWiFiCredentialsLen)
    => /\ responses' = <<"kOutOfRange">>
       /\ sNetworks' = sNetworks

C2_OversizeLeavesTableUnchanged == [][C2_Step]_vars

---------------------------------------------------------------------------
(* C3: with a free slot, an ssid of exactly 32 bytes (credentials of at     *)
(* most 64) is answered Success; an ssid of 33 bytes is answered OutOfRange *)
(* and the set of slots holding a profile is the same after the call.       *)

C3_Step ==
    (build.wifi /\ cmd'.op = "AddOrUpdateWiFiNetwork" /\ Occupied(sNetworks) # Slots)
    => /\ (Len(cmd'.ssid) = kMaxWiFiSSIDLen /\ Len(cmd'.credentials) <= kMaxWiFiCredentialsLen)
             => responses' = <<"kSuccess">>
       /\ Len(cmd'.ssid) = kMaxWiFiSSIDLen + 1
             => /\ responses' = <<"kOutOfRange">>
                /\ Occupied(sNetworks') = Occupied(sNetworks)

C3_SsidBoundary == [][C3_Step]_vars

\* a 32-byte ssid was stored and a 33-byte one has just been refused
C3_Witness ==
    /\ build.wifi
    /\ cmd.op = "AddOrUpdateWiFiNetwork"
    /\ Len(cmd.ssid) = kMaxWiFiSSIDLen + 1
    /\ responses = <<"kOutOfRange">>
    /\ \E i \in Occupied(sNetworks) : sNetworks[i].mNetworkIDLen = kMaxWiFiSSIDLen
    /\ Occupied(sNetworks) # Slots

---------------------------------------------------------------------------
(* C4: after an AddOrUpdateWiFiNetwork(ssid, credentials) answered Success, *)
(* the slot it wrote holds the ssid and its length, the credentials and     *)
(* their length, the ssid as network id with its length, type WiFi and      *)
(* enabled = false.                                                         *)

C4_Stored(n, ssid, credentials) ==
    /\ SubSeq(mSSID(n), 1, Len(ssid)) = ssid
    /\ mSSIDLen(n) = Len(ssid)
    /\ SubSeq(mCredentials(n), 1, Len(credentials)) = credentials
    /\ mCredentialsLen(n) = Len(credentials)
    /\ SubSeq(n.mNetworkID, 1, Len(ssid)) = ssid
    /\ n.mNetworkIDLen = Len(ssid)
    /\ n.mNetworkType = "kWiFi"
    /\ n.mEnabled = FALSE

C4_Step ==
    (cmd'.op = "AddOrUpdateWiFiNetwork" /\ responses' = <<"kSuccess">>)
    => \E i \in Slots :
          /\ Occupied(sNetworks') = Occupied(sNetworks) \cup {i}
          /\ i \notin Occupied(sNetworks)
          /\ C4_Stored(sNetworks'[i], cmd'.ssid, cmd'.credentials)

C4_SuccessStoresInputs == [][C4_Step]_vars

\* an add of a 32-byte ssid with 64-byte credentials has succeeded
C4_Witness ==
    /\ cmd.op = "AddOrUpdateWiFiNetwork"
    /\ responses = <<"kSuccess">>
    /\ Len(cmd.ssid) = kMaxWiFiSSIDLen
    /\ Len(cmd.credentials) = kMaxWiFiCredentialsLen
    /\ \E i \in Occupied(sNetworks) : C4_Stored(sNetworks[i], cmd.ssid, cmd.credentials)

---------------------------------------------------------------------------
(* C5: ConnectNetwork(id), when the profile it matches is a Wi-Fi profile   *)
(* and the platform call succeeds, sets that profile's enabled flag and     *)
(* answers Success; when no slot holding a profile has that id it answers   *)
(* NetworkIdNotFound, changes no slot, calls no platform capability and     *)
(* does not fire the operational-network notifier.                          *)

\* the lowest slot holding a profile with the id
C5_FirstMatch(nets, id, i) ==
    /\ HoldsId(nets, i, id)
    /\ \A j \in Slots : j < i => ~HoldsId(nets, j, id)

C5_Step ==
    cmd'.op = "ConnectNetwork"
    => /\ (\A i \in Slots : ~HoldsId(sNetworks, i, cmd'.networkID))
             => /\ responses' = <<"kNetworkIDNotFound">>
                /\ sNetworks' = sNetworks
                /\ platformCalls' = <<>>
                /\ notified' = <<>>
       /\ \A i \in Slots :
             (/\ C5_FirstMatch(sNetworks, cmd'.networkID, i)
              /\ sNetworks[i].mNetworkType = "kWiFi"
              /\ build.wifi
              /\ cmd'.failAt = 0)
             => /\ sNetworks'[i].mEnabled = TRUE
                /\ responses' = <<"kSuccess">>

C5_ConnectCorrectness == [][C5_Step]_vars

\* a Wi-Fi profile has just been connected
C5_Witness ==
    /\ cmd.op = "ConnectNetwork"
    /\ responses = <<"kSuccess">>
    /\ \E i \in Slots :
          /\ C5_FirstMatch(sNetworks, cmd.networkID, i)
          /\ sNetworks[i].mNetworkType = "kWiFi"
          /\ sNetworks[i].mEnabled = TRUE
    /\ Len(platformCalls) = 1

---------------------------------------------------------------------------
(* C6: every command gives exactly one response to its sink, carrying one   *)
(* of the five statuses; on a build without the Wi-Fi (Thread) capability   *)
(* the Wi-Fi (Thread) add answers UnknownError and leaves the table alone.  *)

C6_Step ==
    /\ cmd'.op # "none" => (Len(responses') = 1 /\ responses'[1] \in Statuses)
    /\ (\/ cmd'.op = "AddOrUpdateWiFiNetwork" /\ ~build.wifi
        \/ cmd'.op = "AddOrUpdateThreadNetwork" /\ ~build.thread)
       => (responses' = <<"kUnknownError">> /\ sNetworks' = sNetworks)

---------------------------------------------------------------------------
(* C7: an add command whose timed-interaction window has expired performs   *)
(* no mutation of the table and answers UnknownError.                       *)

C7_Step ==
    (IsAdd(cmd') /\ cmd'.windowExpired)
    => (responses' = <<"kUnknownError">> /\ sNetworks' = sNetworks)

C7_ExpiredWindowRefused == [][C7_Step]_vars

---------------------------------------------------------------------------
(* C8: a window opened at time t0 with timeout T has deadline t0 + T, which *)
(* no later reply or passage of time moves; check_window(now) answers       *)
(* Expired exactly when now > deadline and succeeds at or before it; any    *)
(* check discards the window, so a second check on it never succeeds.       *)

\* the operation a step of the guard performs
C8_Op == IF now' # now THEN "Tick" ELSE tr'.op

C8_Step ==
    /\ (C8_Op = "Send" /\ tr'.result = "CHIP_NO_ERROR")
          => window' = [open |-> TRUE, deadline |-> now + tr'.timeout]
    /\ (C8_Op = "CheckWindow" /\ window.open)
          => /\ (tr'.result = "Expired") <=> (now > window.deadline)
             /\ (now <= window.deadline) => (tr'.result = "Ok")
    /\ C8_Op = "CheckWindow" => ~window'.open
    /\ (C8_Op = "CheckWindow" /\ ~window.open) => tr'.result # "Ok"
    /\ C8_Op \in {"Tick", "HandleResponse"} => window' = window

C8_WindowDeadline == [][C8_Step]_vars

\* a window open since an earlier instant was checked after its deadline
C8_Witness ==
    /\ tr.op = "CheckWindow"
    /\ tr.open
    /\ tr.at > tr.deadline
    /\ tr.result = "Expired"
    /\ ~window.open

---------------------------------------------------------------------------
(* C9: HandleResponse succeeds exactly when the reply is a StatusResponse   *)
(* whose payload decodes to the status Success; any other message type      *)
(* gives InvalidMessageType and leaves the status output untouched; a       *)
(* decoded status other than Success gives StatusCodeReceived.              *)

C9_Decodes(payload) == DecodeUIntStruct(payload) \in 0..255

C9_HandleResponse ==
    tr.op = "HandleResponse"
    => /\ (tr.result = "CHIP_NO_ERROR")
             <=> (/\ tr.msgType = "StatusResponse"
                  /\ C9_Decodes(tr.payload)
                  /\ DecodeUIntStruct(tr.payload) = kStatusSuccess)
       /\ tr.msgType # "StatusResponse"
             => (tr.result = "CHIP_ERROR_INVALID_MESSAGE_TYPE" /\ tr.statusOut = tr.statusIn)
       /\ (/\ tr.msgType = "StatusResponse"
           /\ C9_Decodes(tr.payload)
           /\ DecodeUIntStruct(tr.payload) # kStatusSuccess)
             => (/\ tr.result = "CHIP_ERROR_IM_STATUS_CODE_RECEIVED"
                 /\ tr.statusOut = DecodeUIntStruct(tr.payload))

\* a StatusResponse carrying a failure status has been handled
C9_Witness ==
    /\ tr.op = "HandleResponse"
    /\ tr.msgType = "StatusResponse"
    /\ tr.statusIn = kStatusSuccess
    /\ tr.statusOut = kStatusTimeout
    /\ tr.result = "CHIP_ERROR_IM_STATUS_CODE_RECEIVED"

---------------------------------------------------------------------------
(* C10: Send makes at most one SendMessage call, of type TimedRequest with  *)
(* the expect-response flag and a payload that decodes to the timeout; it   *)
(* sends nothing when the buffer allocation fails, returning NoMemory, or   *)
(* when an encoding step fails, returning that step's error.                *)

C10_Send ==
    tr.op = "Send"
    => /\ Len(tr.sent) <= 1
       /\ \A k \in 1..Len(tr.sent) :
             /\ tr.sent[k].type = "TimedRequest"
             /\ "kExpectResponse" \in tr.sent[k].flags
             /\ DecodeUIntStruct(tr.sent[k].payload) = tr.timeout
       /\ tr.failStep = "New" => (tr.sent = <<>> /\ tr.result = "CHIP_ERROR_NO_MEMORY")
       /\ tr.failStep \in {"builder.Init", "builder.TimeoutMs", "writer.Finalize"}
             => (tr.sent = <<>> /\ tr.result = StepError(tr.failStep))
       /\ tr.result = "CHIP_NO_ERROR" => Len(tr.sent) = 1

\* a 16-bit timeout has been sent
C10_Witness ==
    /\ tr.op = "Send"
    /\ tr.timeout > 255
    /\ tr.result = "CHIP_NO_ERROR"
    /\ Len(tr.sent) = 1

---------------------------------------------------------------------------
(* C11: connecting a Thread profile calls the platform in the order         *)
(* SetThreadEnabled(false), SetThreadProvision(stored dataset),             *)
(* SetThreadEnabled(true); a failing step stops the sequence, the profile's *)
(* enabled flag is not set and the command answers UnknownError.            *)

\* the dataset bytes a Thread slot stores
C11_StoredDataset(n) == SubSeq(n.mData, 1, n.mData[kMaxThreadDatasetLen + 1])

C11_Disable == [fn |-> "SetThreadEnabled", arg |-> FALSE]
C11_Provision(n) == [fn |-> "SetThreadProvision", arg |-> C11_StoredDataset(n)]
C11_Enable == [fn |-> "SetThreadEnabled", arg |-> TRUE]

\* the step connects the Thread profile of slot i
C11_ConnectsThread(i) ==
    /\ cmd'.op = "ConnectNetwork"
    /\ C5_FirstMatch(sNetworks, cmd'.networkID, i)
    /\ sNetworks[i].mNetworkType = "kThread"

\* the calls made are those of seq up to the failing one
C11_Follows(seq, i) ==
    /\ C11_StoredDataset(sNetworks[i]) \in Datasets
    /\ platformCalls' = SubSeq(seq, 1, Len(platformCalls'))
    /\ IF cmd'.failAt = 0
       THEN /\ platformCalls' = seq
            /\ responses' = <<"kSuccess">>
            /\ sNetworks'[i].mEnabled = TRUE
       ELSE /\ Len(platformCalls') = cmd'.failAt
            /\ responses' = <<"kUnknownError">>
            /\ sNetworks' = sNetworks

\* C11 as stated: the three calls, in that order, on every build
C11_StepAsStated ==
    \A i \in Slots :
        C11_ConnectsThread(i)
        => C11_Follows(<<C11_Disable, C11_Provision(sNetworks[i]), C11_Enable>>, i)

C11_Step ==
    \A i \in Slots :
        C11_ConnectsThread(i)
        => C11_Follows(IF build.linux
                       THEN <<C11_Provision(sNetworks[i]), C11_Enable>>
                       ELSE <<C11_Disable, C11_Provision(sNetworks[i]), C11_Enable>>, i)

---------------------------------------------------------------------------
(* C12: ConnectNetworkForOperational is called exactly once, with the       *)
(* network id of the command, by each ConnectNetwork that answers Success,  *)
(* and never by a ConnectNetwork answering NetworkIdNotFound or             *)
(* UnknownError nor by an add command.                                      *)

C12_Step ==
    /\ (cmd'.op = "ConnectNetwork" /\ responses' = <<"kSuccess">>)
          => notified' = <<cmd'.networkID>>
    /\ (cmd'.op = "ConnectNetwork" /\ responses' # <<"kSuccess">>) => notified' = <<>>
    /\ IsAdd(cmd') => notified' = <<>>

C12_NotifierOnSuccessOnly == [][C12_Step]_vars

\* a Thread profile has been connected and announced
C12_Witness ==
    /\ cmd.op = "ConnectNetwork"
    /\ responses = <<"kSuccess">>
    /\ notified = <<XpanA>>
    /\ cmd.networkID = XpanA

---------------------------------------------------------------------------
(* C13: after a ConnectNetwork whose platform capability fails, the answer  *)
(* is UnknownError and the matched profile's enabled flag is false, also    *)
(* for a profile that an earlier ConnectNetwork connected.                  *)

\* the step is a ConnectNetwork that matched slot i and whose workflow failed
C13_FailedConnect(i) ==
    /\ cmd'.op = "ConnectNetwork"
    /\ C5_FirstMatch(sNetworks, cmd'.networkID, i)
    /\ doConnectErr' # "CHIP_NO_ERROR"

\* C13 as stated: UnknownError and the flag of the matched profile is false
C13_StepAsStated ==
    \A i \in Slots :
        C13_FailedConnect(i)
        => (responses' = <<"kUnknownError">> /\ sNetworks'[i].mEnabled = FALSE)

C13_FailedConnectLeavesDisabled == [][C13_StepAsStated]_vars

\* C13 amended: the flag keeps the value it had, which is true only when an
\* earlier ConnectNetwork connected the profile
C13_Step ==
    \A i \in Slots :
        C13_FailedConnect(i)
        => /\ responses' = <<"kUnknownError">>
           /\ sNetworks'[i].mEnabled = sNetworks[i].mEnabled
           /\ sNetworks' = sNetworks

C13_FailedConnectKeepsFlag == [][C13_Step]_vars

\* a connected profile whose reconnection has just failed
C13_Witness ==
    /\ cmd.op = "ConnectNetwork"
    /\ doConnectErr = "CHIP_ERROR_INTERNAL"
    /\ responses = <<"kUnknownError">>
    /\ \E i \in Slots : C5_FirstMatch(sNetworks, cmd.networkID, i) /\ sNetworks[i].mEnabled

---------------------------------------------------------------------------
(* C14: a slot with enabled = true holds a profile and was the matched slot *)
(* of an earlier ConnectNetwork that answered Success; every successful add *)
(* leaves the slot it wrote with enabled = false.                           *)

C14_Step ==
    /\ \A i \in Slots :
          /\ sNetworks'[i].mEnabled => sNetworks'[i].mNetworkType # "kUndefined"
          /\ (sNetworks'[i].mEnabled /\ ~sNetworks[i].mEnabled)
                => /\ cmd'.op = "ConnectNetwork"
                   /\ responses' = <<"kSuccess">>
                   /\ C5_FirstMatch(sNetworks, cmd'.networkID, i)
    /\ (IsAdd(cmd') /\ responses' = <<"kSuccess">>)
          => \A i \in Occupied(sNetworks') \ Occupied(sNetworks) : ~sNetworks'[i].mEnabled

C14_EnabledOnlyByConnect == [][C14_Step]_vars

\* a connected profile beside a profile added after it
C14_Witness ==
    /\ IsAdd(cmd)
    /\ responses = <<"kSuccess">>
    /\ \E i, j \in Occupied(sNetworks) : sNetworks[i].mEnabled /\ ~sNetworks[j].mEnabled

---------------------------------------------------------------------------
(* C15: per slot the only transitions are Undefined -> Provisioned          *)
(* (enabled = false) -> Connected (enabled = true): a slot that holds a     *)
(* profile keeps its network type, network id and payload for ever, and an  *)
(* enabled flag that is true never becomes false.                           *)

C15_Step ==
    \A i \in Slots :
        /\ sNetworks[i].mNetworkType # "kUndefined"
              => /\ sNetworks'[i].mNetworkType = sNetworks[i].mNetworkType
                 /\ sNetworks'[i].mNetworkID = sNetworks[i].mNetworkID
                 /\ sNetworks'[i].mNetworkIDLen = sNetworks[i].mNetworkIDLen
                 /\ sNetworks'[i].mData = sNetworks[i].mData
        /\ sNetworks[i].mEnabled => sNetworks'[i].mEnabled
        /\ sNetworks[i].mNetworkType = "kUndefined" => ~sNetworks'[i].mEnabled

C15_SlotLifecycle == [][C15_Step]_vars

\* a connected profile has gone through a failed connect and stays connected
C15_Witness ==
    /\ cmd.op = "ConnectNetwork"
    /\ responses = <<"kUnknownError">>
    /\ nCmds >= 3
    /\ \E i \in Slots : HoldsId(sNetworks, i, cmd.networkID) /\ sNetworks[i].mEnabled

---------------------------------------------------------------------------
(* C16: a valid Wi-Fi add whose ssid is already the network id of a stored  *)
(* profile, on a table with a free slot, answers Success, writes the first  *)
(* Undefined slot and leaves the existing profile untouched: two slots at   *)
(* different indexes then hold the same network id.                         *)

C16_Step ==
    \A i \in Slots :
        (/\ cmd'.op = "AddOrUpdateWiFiNetwork"
         /\ build.wifi
         /\ ValidWiFiAdd(cmd'.ssid, cmd'.credentials)
         /\ HoldsId(sNetworks, i, cmd'.ssid)
         /\ Occupied(sNetworks) # Slots)
        => /\ responses' = <<"kSuccess">>
           /\ sNetworks'[i] = sNetworks[i]
           /\ \E j \in Slots \ Occupied(sNetworks) :
                 /\ j # i
                 /\ HoldsId(sNetworks', j, cmd'.ssid)
                 /\ sNetworks'[j].mNetworkIDLen = sNetworks'[i].mNetworkIDLen
                 /\ sNetworks'[j].mNetworkID = sNetworks'[i].mNetworkID
                 /\ Changed(sNetworks, sNetworks') = {j}

C16_SecondAddTakesFreshSlot == [][C16_Step]_vars

\* the same ssid and credentials stored twice
C16_Witness ==
    /\ cmd.op = "AddOrUpdateWiFiNetwork"
    /\ responses = <<"kSuccess">>
    /\ \E i, j \in Slots :
          /\ i # j
          /\ HoldsId(sNetworks, i, cmd.ssid)
          /\ HoldsId(sNetworks, j, cmd.ssid)
          /\ sNetworks[i].mNetworkType = "kWiFi"
          /\ sNetworks[i] = sNetworks[j]

---------------------------------------------------------------------------
(* C17: in every reachable state no two slots that hold a profile have the  *)
(* same network id (same length and same bytes).                            *)

C17_UniqueNetworkIds ==
    \A i, j \in Occupied(sNetworks) :
        i # j => ~(/\ sNetworks[i].mNetworkIDLen = sNetworks[j].mNetworkIDLen
                   /\ MemEq(sNetworks[i].mNetworkID, sNetworks[j].mNetworkID,
                            sNetworks[i].mNetworkIDLen))

---------------------------------------------------------------------------
(* C18: AddOrUpdateThreadNetwork on a table with a free slot: a dataset     *)
(* that does not parse is answered UnknownError and no slot changes; on a   *)
(* build with Thread a dataset that parses and carries an extended PAN ID   *)
(* is answered Success and the first Undefined slot gets that 8-byte id,    *)
(* type Thread and enabled = false.                                         *)

\* the dataset of the command parses
C18_Parses(ds) == Len(ds) <= kMaxThreadDatasetLen /\ WellFormedTLVs(ds, 1)

\* position of the extended PAN ID TLV in the dataset of the command, 0 if none
C18_XpanAt(ds) == LocateTLV(ds, 1, kTlvExtendedPanId)

C18_HasXpan(ds) == C18_XpanAt(ds) # 0 /\ ds[C18_XpanAt(ds) + 1] = kSizeExtendedPanId

C18_FirstFree(nets, j) ==
    nets[j].mNetworkType = "kUndefined" /\ \A k \in 0..(j - 1) : nets[k].mNetworkType # "kUndefined"

C18_Step ==
    (cmd'.op = "AddOrUpdateThreadNetwork" /\ Occupied(sNetworks) # Slots)
    => /\ ~C18_Parses(cmd'.dataset)
            => (responses' = <<"kUnknownError">> /\ sNetworks' = sNetworks)
       /\ (build.thread /\ C18_Parses(cmd'.dataset) /\ C18_HasXpan(cmd'.dataset))
            => /\ responses' = <<"kSuccess">>
               /\ \E j \in Slots :
                     /\ C18_FirstFree(sNetworks, j)
                     /\ Changed(sNetworks, sNetworks') = {j}
                     /\ sNetworks'[j].mNetworkType = "kThread"
                     /\ sNetworks'[j].mNetworkIDLen = kSizeExtendedPanId
                     /\ SubSeq(sNetworks'[j].mNetworkID, 1, kSizeExtendedPanId)
                           = Bytes(cmd'.dataset, C18_XpanAt(cmd'.dataset) + 1, kSizeExtendedPanId)
                     /\ sNetworks'[j].mEnabled = FALSE

C18_ThreadAdd == [][C18_Step]_vars

\* a Thread profile stored behind another profile, then a dataset that does not parse
C18_Witness ==
    /\ cmd.op = "AddOrUpdateThreadNetwork"
    /\ build.thread
    /\ ~C18_Parses(cmd.dataset)
    /\ responses = <<"kUnknownError">>
    /\ \E j \in Slots \ {0} :
          /\ sNetworks[j].mNetworkType = "kThread"
          /\ SubSeq(sNetworks[j].mNetworkID, 1, kSizeExtendedPanId) \in {XpanA, XpanB}
          /\ j - 1 \in Occupied(sNetworks)

---------------------------------------------------------------------------
(* C19: on a build that supports the network type, an add command answers   *)
(* BoundsExceeded exactly when the table has no Undefined slot.             *)

C19_Supported(c) ==
    \/ c.op = "AddOrUpdateWiFiNetwork" /\ build.wifi
    \/ c.op = "AddOrUpdateThreadNetwork" /\ build.thread

C19_Step ==
    C19_Supported(cmd')
    => (responses' = <<"kBoundsExceeded">> <=> Occupied(sNetworks) = Slots)

C19_BoundsExceededIffFull == [][C19_Step]_vars

---------------------------------------------------------------------------
(* C20: ConnectNetwork answers NetworkIDNotFound exactly when no slot that  *)
(* holds a profile has a network id of the same length and bytes as the id  *)
(* of the command; an Undefined slot never matches, and neither does an id  *)
(* that is a prefix or an extension of a stored id.                         *)

\* id is a strict prefix or a strict extension of the id stored in slot i
C20_PrefixOrExtension(nets, i, id) ==
    LET n == nets[i].mNetworkIDLen
        m == IF n < Len(id) THEN n ELSE Len(id)
    IN /\ nets[i].mNetworkType # "kUndefined"
       /\ n # Len(id)
       /\ SubSeq(nets[i].mNetworkID, 1, m) = SubSeq(id, 1, m)

C20_Step ==
    cmd'.op = "ConnectNetwork"
    => /\ responses' = <<"kNetworkIDNotFound">>
            <=> ~\E i \in Slots : HoldsId(sNetworks, i, cmd'.networkID)
       /\ responses' = <<"kNetworkIDNotFound">>
            => (sNetworks' = sNetworks /\ platformCalls' = <<>>)
       /\ (\A i \in Slots : sNetworks[i].mNetworkType = "kUndefined"
                               \/ C20_PrefixOrExtension(sNetworks, i, cmd'.networkID))
            => responses' = <<"kNetworkIDNotFound">>

C20_NotFoundIffNoExactMatch == [][C20_Step]_vars

\* an id that extends a stored id, beside Undefined slots, is not found
C20_Witness ==
    /\ cmd.op = "ConnectNetwork"
    /\ responses = <<"kNetworkIDNotFound">>
    /\ Len(cmd.networkID) = 2
    /\ \E i \in Slots : C20_PrefixOrExtension(sNetworks, i, cmd.networkID)
    /\ Occupied(sNetworks) # Slots

\* the empty id against slots that are Undefined with a zero id length
C20_WitnessEmptyId ==
    /\ cmd.op = "ConnectNetwork"
    /\ cmd.networkID = <<>>
    /\ responses = <<"kNetworkIDNotFound">>
    /\ \E i \in Slots : sNetworks[i].mNetworkType = "kUndefined" /\ sNetworks[i].mNetworkIDLen = 0
    /\ Occupied(sNetworks) # {}

---------------------------------------------------------------------------
(* C21: an add that answers Success writes the lowest-index slot whose      *)
(* network type is Undefined and changes no field of any other slot.        *)

C21_Step ==
    (IsAdd(cmd') /\ responses' = <<"kSuccess">>)
    => \E j \in Slots :
          /\ C18_FirstFree(sNetworks, j)
          /\ sNetworks'[j].mNetworkType # "kUndefined"
          /\ \A k \in Slots \ {j} : sNetworks'[k] = sNetworks[k]

C21_FirstFit == [][C21_Step]_vars

\* a successful add into slot 1, behind a profile and before free slots
C21_Witness ==
    /\ IsAdd(cmd)
    /\ responses = <<"kSuccess">>
    /\ Occupied(sNetworks) = {0, 1}
    /\ sNetworks[2] = ZeroNetworkInfo

---------------------------------------------------------------------------
(* C27: in every state reachable from the empty table the slots that hold  *)
(* a profile form a prefix of the table.                                    *)

C27_OccupiedIsPrefix ==
    \A i \in Occupied(sNetworks) : \A j \in 0..(i - 1) : j \in Occupied(sNetworks)

\* two profiles stored around a rejected add that left bytes in slot 2
C27_Witness ==
    /\ Occupied(sNetworks) = {0, 1}
    /\ sNetworks[2] # ZeroNetworkInfo

---------------------------------------------------------------------------
(* C23: when ConnectNetwork dispatches a Wi-Fi profile, the SSID and the    *)
(* credentials the platform receives, read as NUL-terminated strings from   *)
(* the slot, are exactly the ssid and credentials of the add that stored    *)
(* the profile, and neither read runs past the end of its array.            *)

\* the strings a read bounded by the stored lengths hands over
C23_Expected(n) ==
    [fn |-> "ProvisionWiFi",
     arg |-> <<[str |-> SubSeq(mSSID(n), 1, mSSIDLen(n)), overrun |-> FALSE],
               [str |-> SubSeq(mCredentials(n), 1, mCredentialsLen(n)), overrun |-> FALSE]>>]

C23_Step ==
    \A i \in Slots :
        (/\ cmd'.op = "ConnectNetwork"
         /\ C5_FirstMatch(sNetworks, cmd'.networkID, i)
         /\ sNetworks[i].mNetworkType = "kWiFi"
         /\ build.wifi)
        => platformCalls' = <<C23_Expected(sNetworks[i])>>

C23_PlatformGetsStoredStrings == [][C23_Step]_vars

---------------------------------------------------------------------------
(* C25: when several slots hold the same network id, ConnectNetwork acts on *)
(* the lowest-index one only: one connect attempt, made once whether it     *)
(* succeeds or fails, and a higher-index slot with the same id is never     *)
(* tried or enabled, so its enabled flag stays false.                       *)

\* slot j holds the network id of a lower-index profile
C25_Shadowed(nets, j) ==
    /\ nets[j].mNetworkType # "kUndefined"
    /\ \E i \in 0..(j - 1) :
          HoldsId(nets, i, SubSeq(nets[j].mNetworkID, 1, nets[j].mNetworkIDLen))

\* the most platform calls one attempt on profile n makes
C25_OneAttempt(n) == IF n.mNetworkType = "kWiFi" THEN 1 ELSE 3

C25_Step ==
    /\ \A j \in Slots : C25_Shadowed(sNetworks', j) => ~sNetworks'[j].mEnabled
    /\ \A i \in Slots :
          (cmd'.op = "ConnectNetwork" /\ C5_FirstMatch(sNetworks, cmd'.networkID, i))
          => /\ Changed(sNetworks, sNetworks') \subseteq {i}
             /\ Len(platformCalls') <= C25_OneAttempt(sNetworks[i])
             /\ cmd'.failAt # 0 => (Len(platformCalls') = cmd'.failAt
                                     /\ responses' = <<"kUnknownError">>)
             /\ cmd'.failAt = 0 /\ doConnectErr' = "CHIP_NO_ERROR" => sNetworks'[i].mEnabled

C25_LowestIndexOnly == [][C25_Step]_vars

\* two slots with one id after a connect that succeeded and one that failed
C25_Witness ==
    /\ cmd.op = "ConnectNetwork"
    /\ responses = <<"kUnknownError">>
    /\ platformCalls # <<>>
    /\ HoldsId(sNetworks, 0, cmd.networkID) /\ sNetworks[0].mEnabled
    /\ HoldsId(sNetworks, 1, cmd.networkID) /\ ~sNetworks[1].mEnabled

---------------------------------------------------------------------------
(* C26: ConnectNetwork changes at most the enabled flag of the matched      *)
(* slot: no slot's network id, type or payload changes and no other slot's  *)
(* enabled flag changes, so a profile connected earlier stays enabled when  *)
(* a second profile is connected.                                           *)

C26_Step ==
    cmd'.op = "ConnectNetwork"
    => \A k \in Slots :
          /\ sNetworks'[k].mNetworkID = sNetworks[k].mNetworkID
          /\ sNetworks'[k].mNetworkIDLen = sNetworks[k].mNetworkIDLen
          /\ sNetworks'[k].mNetworkType = sNetworks[k].mNetworkType
          /\ sNetworks'[k].mData = sNetworks[k].mData
          /\ sNetworks'[k].mEnabled # sNetworks[k].mEnabled
                => /\ C5_FirstMatch(sNetworks, cmd'.networkID, k)
                   /\ sNetworks'[k].mEnabled
                   /\ responses' = <<"kSuccess">>

C26_ConnectFrame == [][C26_Step]_vars

\* two profiles with different ids, both enabled, after the second connect
C26_Witness ==
    /\ cmd.op = "ConnectNetwork"
    /\ responses = <<"kSuccess">>
    /\ \E i, j \in Slots :
          /\ i # j
          /\ sNetworks[i].mEnabled /\ sNetworks[j].mEnabled
          /\ sNetworks[i].mNetworkType # sNetworks[j].mNetworkType
          /\ HoldsId(sNetworks, j, cmd.networkID)

---------------------------------------------------------------------------
(* C24: DoConnectNetwork on a profile of type Ethernet or Undefined returns *)
(* the not-implemented error, which no other failure of the workflow        *)
(* returns, makes no platform call and leaves enabled unchanged; the        *)
(* ConnectNetwork command answers UnknownError for every workflow failure.  *)

C24_NoWorkflow(n) == n.mNetworkType \in {"kEthernet", "kUndefined"}

C24_Step ==
    /\ cmd'.op = "DoConnectNetwork"
          => /\ C24_NoWorkflow(sNetworks[0])
                   => /\ doConnectErr' = "CHIP_ERROR_NOT_IMPLEMENTED"
                      /\ platformCalls' = <<>>
                      /\ sNetworks' = sNetworks
             /\ ~C24_NoWorkflow(sNetworks[0])
                   => doConnectErr' \in {"CHIP_NO_ERROR", "CHIP_ERROR_UNSUPPORTED_CHIP_FEATURE",
                                         "CHIP_ERROR_INTERNAL"}
    /\ (cmd'.op = "ConnectNetwork" /\ doConnectErr' \notin {"none", "CHIP_NO_ERROR"})
          => (responses' = <<"kUnknownError">> /\ sNetworks' = sNetworks)

C24_NotImplemented == [][C24_Step]_vars

\* the command has matched an Ethernet profile and the workflow has refused it
C24_Witness ==
    /\ cmd.op = "ConnectNetwork"
    /\ sNetworks[0].mNetworkType = "kEthernet"
    /\ sNetworks[0].mEnabled
    /\ doConnectErr = "CHIP_ERROR_NOT_IMPLEMENTED"
    /\ platformCalls = <<>>
    /\ responses = <<"kUnknownError">>

\* the workflow called on the zero-initialised slot
C24_WitnessUndefined ==
    /\ cmd.op = "DoConnectNetwork"
    /\ sNetworks[0] = ZeroNetworkInfo
    /\ doConnectErr = "CHIP_ERROR_NOT_IMPLEMENTED"

---------------------------------------------------------------------------
(* C22: when commands run on more than one host thread, the scan-and-write  *)
(* of an add and the flips of the enabled flag are serialized: two adds     *)
(* never select and write the same Undefined slot, and the lookup of a      *)
(* connect never reads a slot that an add is part-way through writing.      *)

\* thread t is inside a handler
C22_InHandler(th, t) == th[t].pc \in {"write", "commit", "lookup"}

\* thread t has selected a slot and has not yet stored its type
C22_MidAdd(th, t) == th[t].pc \in {"write", "commit"}

C22_Step ==
    /\ \A t, u \in Threads :
          (t # u /\ C22_InHandler(threads', t)) => ~C22_InHandler(threads', u)
    /\ \A t, u \in Threads :
          (t # u /\ C22_MidAdd(threads', t) /\ C22_MidAdd(threads', u))
          => threads'[t].i # threads'[u].i
    /\ \A u \in Threads :
          (threads[u].pc = "lookup" /\ threads'[u].pc = "done")
          => \A t \in Threads : ~C22_MidAdd(threads, t)
    /\ \A t \in Threads :
          (threads[t].pc = "commit" /\ threads'[t].pc = "done")
          => Changed(sNetworks, sNetworks') = {threads[t].i}
             /\ sNetworks[threads[t].i].mNetworkType = "kUndefined"

----------------------------------------------------------------------------
(***************************************************************************)
(* CHIPClientCallbacks.cpp: the client's cluster response callbacks and    *)
(* list attribute filters.  cb records the call, the continuations it      *)
(* invoked with their arguments, and what it returned.                     *)
(***************************************************************************)

NumPeers == 2
MaxSequence == 1
MaxRegistered == 2
MaxField == 1
MaxListLen == 2

\* the CommandSender objects whose address is the sourceIdentifier (line 112)
Peers == 1..NumPeers
SequenceNumbers == 0..MaxSequence
FieldValues == 0..MaxField

\* Callback::Cancelable *: the null pointer and the registered continuations
nullptr == [kind |-> "null", peer |-> 0, seq |-> 0]
OnSuccess(peer, seq) == [kind |-> "success", peer |-> peer, seq |-> seq]
OnFailure(peer, seq) == [kind |-> "failure", peer |-> peer, seq |-> seq]

\* resolve(peer, sequence): the continuations registered under the pair, or
\* an error that leaves both out-parameters as they were (lines 110-111)
GetResponseCallback(table, sourceIdentifier, sequenceNumber) ==
    IF <<sourceIdentifier, sequenceNumber>> \in table
    THEN [err |-> "CHIP_NO_ERROR",
          onSuccessCallback |-> OnSuccess(sourceIdentifier, sequenceNumber),
          onFailureCallback |-> OnFailure(sourceIdentifier, sequenceNumber)]
    ELSE [err |-> "CHIP_ERROR_KEY_NOT_FOUND",
          onSuccessCallback |-> nullptr, onFailureCallback |-> nullptr]

\* the ten emberAf...ResponseCallback functions (lines 222-375)
ClusterResponseCallbacks ==
    {"ArmFailSafeResponse", "CommissioningCompleteResponse", "SetRegulatoryConfigResponse",
     "ConnectNetworkResponse", "NetworkConfigResponse", "ScanNetworksResponse",
     "AttestationResponse", "CertificateChainResponse", "NOCResponse", "OpCSRResponse"}

\* the number of response fields each callback takes after commandObj
NumFields(fn) ==
    CASE fn = "ArmFailSafeResponse" -> 2
      [] fn = "CommissioningCompleteResponse" -> 2
      [] fn = "SetRegulatoryConfigResponse" -> 2
      [] fn = "ConnectNetworkResponse" -> 3
      [] fn = "NetworkConfigResponse" -> 2
      [] fn = "ScanNetworksResponse" -> 4
      [] fn = "AttestationResponse" -> 2
      [] fn = "CertificateChainResponse" -> 1
      [] fn = "NOCResponse" -> 3
      [] fn = "OpCSRResponse" -> 2

ResponseFields(fn) == [1..NumFields(fn) -> FieldValues]

\* mutant: resolves under whichever sequence number the peer has registered
ClusterResponseCallback_AnySequence(fn, table, commandObj, fields) ==
    LET seqs == {q \in SequenceNumbers : <<commandObj, q>> \in table}
        q == IF seqs = {} THEN 0 ELSE CHOOSE x \in seqs : \A y \in seqs : x >= y
        r == GetResponseCallback(table, commandObj, q)
    IN IF r.err # "CHIP_NO_ERROR"
       THEN [successCalls |-> <<>>, failureCalls |-> <<>>, returned |-> "true"]
       ELSE [successCalls |-> <<[to |-> r.onSuccessCallback, args |-> fields]>>,
             failureCalls |-> <<>>, returned |-> "true"]

\* GET_CLUSTER_RESPONSE_CALLBACKS (lines 109-129) and the body after it:
\* the continuations the callback invokes and the value it returns
ClusterResponseCallback(fn, table, commandObj, fields) ==
    LET r == GetResponseCallback(table, commandObj, 0)
    IN IF r.err # "CHIP_NO_ERROR"
       THEN [successCalls |-> <<>>, failureCalls |-> <<>>, returned |-> "true"]
       ELSE [successCalls |-> <<[to |-> r.onSuccessCallback, args |-> fields]>>,
             failureCalls |-> <<>>, returned |-> "true"]

\* the four ...ListAttributeFilter functions (lines 134-220)
ListAttributeFilters ==
    {"BasicCommissioningInfoList", "NetworksList", "FabricsList", "TrustedRootCertificates"}

\* the element a TLVReader is positioned on: its type and, for a container,
\* the values inside it
TlvTypes == {"Array", "Structure"}
TlvLists == UNION {[1..n -> FieldValues] : n \in 0..MaxListLen}
TlvData == [type : TlvTypes, elements : TlvLists]

\* Decode into a DecodableList: only an array decodes, to the list of its values
Decode(tlvData) ==
    IF tlvData.type = "Array"
    THEN [err |-> "CHIP_NO_ERROR", list |-> tlvData.elements]
    ELSE [err |-> "CHIP_ERROR_SCHEMA_MISMATCH", list |-> <<>>]

\* mutant: no return after the failure branch
ListAttributeFilter_FallsThrough(fn, tlvData, onSuccessCallback, onFailureCallback) ==
    LET d == Decode(tlvData)
    IN [successCalls |-> <<[to |-> onSuccessCallback, args |-> <<d.list>>]>>,
        failureCalls |->
            IF d.err # "CHIP_NO_ERROR" /\ onFailureCallback # nullptr
            THEN <<[to |-> onFailureCallback, args |-> <<"EMBER_ZCL_STATUS_INVALID_VALUE">>]>>
            ELSE <<>>,
        returned |-> "void"]

\* one filter: lines 141-151 on a decode error, lines 153-155 otherwise
ListAttributeFilter(fn, tlvData, onSuccessCallback, onFailureCallback) ==
    LET d == Decode(tlvData)
    IN IF d.err # "CHIP_NO_ERROR"
       THEN [successCalls |-> <<>>,
             failureCalls |->
                 IF onFailureCallback # nullptr
                 THEN <<[to |-> onFailureCallback,
                         args |-> <<"EMBER_ZCL_STATUS_INVALID_VALUE">>]>>
                 ELSE <<>>,
             returned |-> "void"]
       ELSE [successCalls |-> <<[to |-> onSuccessCallback, args |-> <<d.list>>]>>,
             failureCalls |-> <<>>,
             returned |-> "void"]

\* register(peer, sequence, on_success, on_failure): between two messages the
\* caller of a command files its continuations under the pair; the table has
\* room for MaxRegistered pairs
AddResponseCallback(peer, seq) ==
    /\ cb = NoCallback
    /\ Cardinality(gCallbacks) < MaxRegistered
    /\ <<peer, seq>> \notin gCallbacks
    /\ gCallbacks' = gCallbacks \cup {<<peer, seq>>}
    /\ UNCHANGED <<build, sNetworks, cmd, responses, platformCalls, notified, doConnectErr,
                   nCmds, now, window, tr, stackLock, threads, cb>>

\* the caller withdraws its continuations
CancelResponseCallback(peer, seq) ==
    /\ cb = NoCallback
    /\ <<peer, seq>> \in gCallbacks
    /\ gCallbacks' = gCallbacks \ {<<peer, seq>>}
    /\ UNCHANGED <<build, sNetworks, cmd, responses, platformCalls, notified, doConnectErr,
                   nCmds, now, window, tr, stackLock, threads, cb>>

\* a response to a command of commandObj arrives and its callback runs
EmberAfResponseCallback(fn, commandObj, fields) ==
    LET o == ClusterResponseCallback(fn, gCallbacks, commandObj, fields)
    IN /\ cb = NoCallback
       /\ cb' = [fn |-> fn, commandObj |-> commandObj, fields |-> fields,
                 tlvData |-> <<>>, failureIsNull |-> FALSE,
                 successCalls |-> o.successCalls, failureCalls |-> o.failureCalls,
                 returned |-> o.returned]
       /\ UNCHANGED <<build, sNetworks, cmd, responses, platformCalls, notified,
                      doConnectErr, nCmds, now, window, tr, stackLock, threads, gCallbacks>>

\* an attribute report arrives and its filter runs.  The success continuation
\* is dereferenced unchecked (lines 153-155), so it is the one the reader
\* registered; the failure continuation is tested against nullptr (line 144)
\* and may be absent.
AttributeFilterCall(fn, tlvData, peer, onFailureCallback) ==
    LET o == ListAttributeFilter(fn, tlvData, OnSuccess(peer, 0), onFailureCallback)
    IN /\ cb = NoCallback
       /\ cb' = [fn |-> fn, commandObj |-> peer, fields |-> <<>>,
                 tlvData |-> tlvData, failureIsNull |-> (onFailureCallback = nullptr),
                 successCalls |-> o.successCalls, failureCalls |-> o.failureCalls,
                 returned |-> o.returned]
       /\ UNCHANGED <<build, sNetworks, cmd, responses, platformCalls, notified,
                      doConnectErr, nCmds, now, window, tr, stackLock, threads, gCallbacks>>

\* the callback or filter has returned to the message loop, which runs one
\* of them at a time and takes up the next message
CallbackReturned ==
    /\ cb # NoCallback
    /\ cb' = NoCallback
    /\ UNCHANGED <<build, sNetworks, cmd, responses, platformCalls, notified,
                   doConnectErr, nCmds, now, window, tr, stackLock, threads, gCallbacks>>

CallbacksNext ==
    \/ \E peer \in Peers, seq \in SequenceNumbers : AddResponseCallback(peer, seq)
    \/ \E peer \in Peers, seq \in SequenceNumbers : CancelResponseCallback(peer, seq)
    \/ \E fn \in ClusterResponseCallbacks, commandObj \in Peers :
          \E fields \in ResponseFields(fn) : EmberAfResponseCallback(fn, commandObj, fields)
    \/ \E fn \in ListAttributeFilters, tlvData \in TlvData :
          \E onFailureCallback \in {nullptr, OnFailure(1, 0)} :
             AttributeFilterCall(fn, tlvData, 1, onFailureCallback)
    \/ CallbackReturned

\* the callbacks are generated for the tv-app, a Linux build
CallbacksInit == NCInit /\ build.linux

SpecCallbacks == CallbacksInit /\ [][CallbacksNext]_vars

----------------------------------------------------------------------------
\* C28: each cluster response callback resolves the continuations filed under
\* its command sender and sequence number 0.  When that pair is registered it
\* invokes the success continuation of the pair exactly once, with the
\* response fields it was given, and never a failure continuation; when the
\* pair is not registered it invokes no continuation; either way it returns
\* true.
C28_Step ==
    (cb = NoCallback /\ cb'.fn \in ClusterResponseCallbacks) =>
        /\ cb'.returned = "true"
        /\ cb'.failureCalls = <<>>
        /\ IF <<cb'.commandObj, 0>> \in gCallbacks
           THEN cb'.successCalls =
                    <<[to |-> OnSuccess(cb'.commandObj, 0), args |-> cb'.fields]>>
           ELSE cb'.successCalls = <<>>

C28_ResponseCallbacks == [][C28_Step]_vars

\* a ConnectNetworkResponse reached the continuation registered under
\* sequence number 0 while the same peer also had sequence number 1 on file
C28_Witness ==
    /\ cb.fn = "ConnectNetworkResponse"
    /\ Len(cb.successCalls) = 1
    /\ cb.successCalls[1].args = cb.fields
    /\ cb.returned = "true"
    /\ {<<cb.commandObj, 0>>, <<cb.commandObj, 1>>} \subseteq gCallbacks

\* a ScanNetworksResponse found nothing under sequence number 0, although the
\* peer has continuations on file under sequence number 1: nothing was invoked
C28_WitnessUnresolved ==
    /\ cb.fn = "ScanNetworksResponse"
    /\ cb.successCalls = <<>>
    /\ cb.failureCalls = <<>>
    /\ cb.returned = "true"
    /\ <<cb.commandObj, 1>> \in gCallbacks
    /\ <<cb.commandObj, 0>> \notin gCallbacks

\* C29: each list attribute filter invokes at most one continuation.  When the
\* data does not decode to a list it invokes the failure continuation once
\* with the invalid-value status if that continuation is not null, and never
\* the success continuation; when the data decodes it invokes the success
\* continuation once with the decoded list and never the failure continuation.
C29_Step ==
    (cb = NoCallback /\ cb'.fn \in ListAttributeFilters) =>
        /\ Len(cb'.successCalls) + Len(cb'.failureCalls) <= 1
        /\ IF cb'.tlvData.type # "Array"
           THEN /\ cb'.successCalls = <<>>
                /\ IF cb'.failureIsNull
                   THEN cb'.failureCalls = <<>>
                   ELSE /\ Len(cb'.failureCalls) = 1
                        /\ cb'.failureCalls[1].to.kind = "failure"
                        /\ cb'.failureCalls[1].args = <<"EMBER_ZCL_STATUS_INVALID_VALUE">>
           ELSE /\ cb'.failureCalls = <<>>
                /\ cb'.successCalls =
                       <<[to |-> OnSuccess(cb'.commandObj, 0),
                          args |-> <<cb'.tlvData.elements>>]>>

C29_ListFilters == [][C29_Step]_vars

\* the networks list filter was given data that is not a list and a failure
\* continuation, and invoked only that continuation
C29_Witness ==
    /\ cb.fn = "NetworksList"
    /\ cb.tlvData.type = "Structure"
    /\ ~cb.failureIsNull
    /\ Len(cb.failureCalls) = 1
    /\ cb.successCalls = <<>>

\* the same filter with no failure continuation invoked nothing
C29_WitnessNullFailure ==
    /\ cb.fn = "NetworksList"
    /\ cb.tlvData.type = "Structure"
    /\ cb.failureIsNull
    /\ cb.failureCalls = <<>>
    /\ cb.successCalls = <<>>

\* the fabrics list filter decoded a list of two entries and handed it to the
\* success continuation
C29_WitnessDecoded ==
    /\ cb.fn = "FabricsList"
    /\ cb.tlvData.type = "Array"
    /\ Len(cb.successCalls) = 1
    /\ Len(cb.successCalls[1].args[1]) = 2
    /\ cb.failureCalls = <<>>

====
